---- MODULE Spec2Model ----
(***************************************************************************)
(* The dispatch pipeline of the unified linear-algebra surface             *)
(* (ivy/functional/ivy/linear_algebra.py) over the torch backend           *)
(* (ivy/functional/backends/torch/linear_algebra.py).                      *)
(*                                                                         *)
(* One call of a unified operation runs through the decorators stacked on  *)
(* it, outermost first, then through the function body                     *)
(* (current_backend(...).op(...)), then back out through the decorators.   *)
(* Array values are records; the numeric content of an array is a term     *)
(* (a string) naming the native kernel calls that produced it.             *)
(***************************************************************************)
EXTENDS Integers, Naturals, Sequences, FiniteSets, TLC

VARIABLES
    active,      \* the active backend, or NoBackend
    everActive,  \* the backends under which unified arrays have been created
    call,        \* the call in flight (a record), or None
    pc,          \* "idle", "enter", "body", "exit", "unwind", "done"
    depth,       \* index into the decorator stack of the call's operation
    args,        \* <<x1, x2>> as the current layer sees them
    outarg,      \* the out object handed to the backend function, or None
    outbuf,      \* the caller's out buffer (an array record), or None
    leaves,      \* handle_nestable: the leaf paths being mapped over
    leafIdx,     \* handle_nestable: the leaf being computed
    leafRes,     \* handle_nestable: the results of the leaves done
    ret,         \* the value travelling back to the caller
    err,         \* the exception travelling back to the caller, or None
    log,         \* the stages executed by this call, in order
    kernels      \* the native kernel invocations made by this call

vars == <<active, everActive, call, pc, depth, args, outarg, outbuf,
          leaves, leafIdx, leafRes, ret, err, log, kernels>>

-----------------------------------------------------------------------------
(* Bounds of the model *)

\* nesting depth of the Containers passed to a call
MaxDepth == 2

-----------------------------------------------------------------------------
(* Values *)

None == [kind |-> "none"]

NoBackend == "none"

\* torch is the backend whose code is modelled; numpy stands for any other one
Backends == {"torch", "numpy"}

Dtypes == {"float16", "bfloat16", "float32", "int8", "int32"}

\* backend versions, as <<major, minor, patch>>
Versions == {<<1, 10, 2>>, <<1, 11, 0>>, <<1, 12, 1>>}

\* an array: kind is "ivy" (unified), "native" or "other" (neither)
Arr(kind, be, id, dtype, shape, val) ==
    [kind |-> kind, be |-> be, id |-> id, dtype |-> dtype, shape |-> shape,
     val |-> val]

IsArr(v) == v.kind \in {"ivy", "native", "other"}

IsContainer(v) == v.kind = "container"

\* a Container: an ordered sequence of (key, value) items
Cont(items) == [kind |-> "container", items |-> items]

Item(k, v) == [k |-> k, v |-> v]

-----------------------------------------------------------------------------
(* The unified surface: ivy/functional/ivy/linear_algebra.py *)

TwoOperandOps ==
    {"cross", "inner", "matmul", "outer", "solve", "tensordot", "vecdot"}

\* the operations declared without an out parameter
NoOutOps == {"qr", "slogdet", "svd"}

Ops ==
    {"cholesky", "cross", "det", "diag", "diagonal", "eigh", "eigvalsh",
     "inner", "inv", "matmul", "matrix_norm", "matrix_power", "matrix_rank",
     "matrix_transpose", "outer", "pinv", "qr", "slogdet", "solve", "svd",
     "svdvals", "tensordot", "trace", "vecdot", "vector_norm",
     "vector_to_skew_symmetric_matrix", "vander"}

\* the decorators stacked on an operation, outermost first
\* the stack with handle_out_argument written first instead of second
Decorators_OutFirst(op) ==
    IF op \in NoOutOps
    THEN <<"to_native_arrays_and_back", "handle_nestable", "handle_exceptions">>
    ELSE <<"handle_out_argument", "to_native_arrays_and_back",
           "handle_nestable", "handle_exceptions">>

\* the stack with handle_nestable left out
Decorators_NotNestable(op) ==
    IF op \in NoOutOps
    THEN <<"to_native_arrays_and_back", "handle_exceptions">>
    ELSE <<"to_native_arrays_and_back", "handle_out_argument",
           "handle_exceptions">>

Decorators(op) ==
    IF op \in NoOutOps
    THEN <<"to_native_arrays_and_back", "handle_nestable", "handle_exceptions">>
    ELSE <<"to_native_arrays_and_back", "handle_out_argument",
           "handle_nestable", "handle_exceptions">>

\* the arguments the body hands to current_backend(...)
ResolverArgs(op) ==
    CASE op \in {"inner", "outer", "solve", "tensordot"} -> "x1x2"
      [] op = "vander" -> "none"
      [] OTHER -> "x1"

\* whether the body forwards out= to the backend function
ForwardsOut(op) == op \notin (NoOutOps \cup {"diag"})

\* the values of the keyword parameter that selects a path of the backend
\* function (upper, axis, adjoint, transpose_a/b, ord, rtol, mode, the shape
\* class of x2, compute_uv, axes): 0 is the default
Params(op) ==
    CASE op \in {"cross", "matmul", "qr", "solve"} -> {0, 1, 2}
      [] op = "matrix_norm" -> 0..5
      [] op \in {"cholesky", "inv", "pinv", "svd", "tensordot", "vector_norm"}
            -> {0, 1}
      [] OTHER -> {0}

-----------------------------------------------------------------------------
(* Dtype promotion (ivy.promote_types, ivy.promote_types_of_inputs) *)

IsFloat(d) == d \in {"float16", "bfloat16", "float32", "float64"}

DtypeRank(d) ==
    CASE d = "int8" -> 1 [] d = "int32" -> 2 [] d = "int64" -> 3
      [] d = "float16" -> 4 [] d = "bfloat16" -> 4
      [] d = "float32" -> 5 [] d = "float64" -> 6

\* the dtype of the first operand taken for the promoted dtype
promote_types_First(a, b) == a

promote_types(a, b) ==
    IF a = b THEN a
    ELSE IF DtypeRank(a) = DtypeRank(b) THEN "float32"
    ELSE IF DtypeRank(a) > DtypeRank(b) THEN a ELSE b

\* both operands cast to the promoted dtype
promote_types_of_inputs(x1, x2) ==
    LET d == promote_types(x1.dtype, x2.dtype)
    IN  <<[x1 EXCEPT !.dtype = d], [x2 EXCEPT !.dtype = d]>>

-----------------------------------------------------------------------------
(* The torch backend: ivy/functional/backends/torch/linear_algebra.py *)

\* what a backend function hands back: the returned value, the out buffer as
\* the call leaves it, and the exception raised ("" when none)
Res(r, out, raised) == [ret |-> r, out |-> out, raised |-> raised]

Fresh(dtype, shape, val) == Arr("native", "torch", "new", dtype, shape, val)

\* a native torch kernel taking out=: without out it returns a fresh tensor;
\* with out it resizes out, writes the result into it and returns out itself
NativeOut(dtype, shape, val, out) ==
    IF out = None
    THEN Res(Fresh(dtype, shape, val), None, "")
    ELSE LET o == [out EXCEPT !.shape = shape, !.val = val]
         IN  Res(o, o, "")

\* a native torch kernel called without out=: out is left as it was
NativeNoOut(dtype, shape, val, out) == Res(Fresh(dtype, shape, val), out, "")

\* ivy.inplace_update(out, ret): ret's data copied into out, out returned
inplace_update(out, r) == [out EXCEPT !.shape = r.shape, !.val = r.val]

\* tensor.to(dtype) / tensor.type(dtype): the tensor itself when the dtype is
\* already the one asked for, else a cast copy
CastTo(x, d) == IF x.dtype = d THEN x ELSE [x EXCEPT !.dtype = d, !.id = "new"]

\* a named tuple of tensors
Tuple(name, fields, items) ==
    [kind |-> "tuple", name |-> name, fields |-> fields, items |-> items]

\* the term of a native call on one or two operands
T1(f, x) == f \o "(" \o x.val \o ")"

T2(f, x1, x2) == f \o "(" \o x1.val \o "," \o x2.val \o ")"

\* torch.transpose / torch.t / torch.swapaxes: the data rearranged
Transposed(x) == [x EXCEPT !.val = T1("t", x), !.id = "new"]

\* cholesky returning the lower factor whatever upper is
torch_cholesky_Lower(x, p, out) ==
    NativeOut(x.dtype, "res", T1("cholesky", x), out)

torch_cholesky(x, p, out) ==
    LET upper == (p = 1)
    IN  IF ~upper
        THEN NativeOut(x.dtype, "res", T1("cholesky", x), out)
        ELSE LET r == Transposed(Fresh(x.dtype, "res",
                                       T1("cholesky", Transposed(x))))
             IN  IF out # None
                 THEN LET o == inplace_update(out, r) IN Res(o, o, "")
                 ELSE Res(r, out, "")

\* axis: None (p = 0), 0 (p = 1) or 1 (p = 2); `if axis:` is false for axis 0
torch_cross(x1, x2, p, out) ==
    LET axis == CASE p = 0 -> "-1" [] p = 1 -> "0" [] OTHER -> "1"
        pr   == promote_types_of_inputs(x1, x2)
        d    == pr[1].dtype
    IN  IF axis # "0"
        THEN NativeNoOut(d, "res",
                         "cross(" \o x1.val \o "," \o x2.val \o ",dim="
                            \o axis \o ")", out)
        ELSE LET k == NativeOut(d, "res",
                                T2("cross", Transposed(pr[1]),
                                   Transposed(pr[2])), out)
             IN  Res(Transposed(k.ret), k.out, "")

torch_det(x, p, out) == NativeOut(x.dtype, "res", T1("det", x), out)

\* torch.ones((num_rows, num_cols)) has torch's default dtype
torch_diag(x, p, out) ==
    NativeNoOut("float32", "res", T1("ones*pad+diag", x), out)

torch_diagonal(x, p, out) ==
    NativeNoOut(x.dtype, "res", T1("diagonal", x), out)

torch_eigh(x, p, out) == NativeOut(x.dtype, "res", T1("eigh", x), out)

torch_eigvalsh(x, p, out) == NativeOut(x.dtype, "res", T1("eigvalsh", x), out)

torch_inner(x1, x2, p, out) ==
    LET pr == promote_types_of_inputs(x1, x2)
    IN  NativeOut(pr[1].dtype, "res", T2("inner", x1, x2), out)

\* `torch.linalg.det == 0` compares the function object with 0
det_is_zero == FALSE

torch_inv(x, p, out) ==
    LET adjoint == (p = 1)
    IN  IF det_is_zero
        THEN IF out # None
             THEN LET o == inplace_update(out, x) IN Res(o, o, "")
             ELSE Res(None, out, "")
        ELSE IF ~adjoint
             THEN NativeOut(x.dtype, "res", T1("inverse", x), out)
             ELSE LET k == NativeOut(x.dtype, "res",
                                     T1("inverse", Transposed(x)), out)
                  IN  IF out # None
                      THEN LET o == inplace_update(k.out, k.ret)
                           IN  Res(o, o, "")
                      ELSE k

\* transpose_a (p = 1), transpose_b (p = 2)
torch_matmul(x1, x2, p, out) ==
    LET a  == IF p = 1 THEN Transposed(x1) ELSE x1
        b  == IF p = 2 THEN Transposed(x2) ELSE x2
        pr == promote_types_of_inputs(a, b)
    IN  NativeOut(pr[1].dtype, "res", T2("matmul", a, b), out)

\* the values of ord a caller passes: "fro" (p = 0), the float 2.0 (p = 1),
\* float("inf") (p = 2), float("-inf") (p = 3), "nuc" (p = 4), the int 1
\* (p = 5)
Ord(p) ==
    CASE p = 0 -> [type |-> "str", v |-> "fro"]
      [] p = 1 -> [type |-> "float", v |-> "2"]
      [] p = 2 -> [type |-> "float", v |-> "inf"]
      [] p = 3 -> [type |-> "float", v |-> "-inf"]
      [] p = 4 -> [type |-> "str", v |-> "nuc"]
      [] OTHER -> [type |-> "int", v |-> "1"]

\* int(ord) of a float: its whole part; OverflowError for an infinity
int(ord) ==
    IF ord.v \in {"inf", "-inf"}
    THEN [type |-> "raised", v |-> "OverflowError"]
    ELSE [type |-> "int", v |-> ord.v]

torch_matrix_norm(x, p, out) ==
    LET ord == IF Ord(p).type = "float" THEN int(Ord(p)) ELSE Ord(p)
    IN  IF ord.type = "raised"
        THEN Res(None, out, ord.v)
        ELSE NativeOut(x.dtype, "res", T1("matrix_norm_" \o ord.v, x), out)

torch_matrix_power(x, p, out) ==
    NativeOut(x.dtype, "res", T1("matrix_power", x), out)

torch_matrix_rank(x, p, out) ==
    LET k == NativeOut("int64", "res", T1("matrix_rank", x), out)
    IN  Res(CastTo(k.ret, x.dtype), k.out, "")

torch_matrix_transpose(x, p, out) ==
    NativeNoOut(x.dtype, "res", T1("swapaxes", x), out)

torch_outer(x1, x2, p, out) ==
    LET pr == promote_types_of_inputs(x1, x2)
    IN  NativeOut(pr[1].dtype, "res", T2("outer", x1, x2), out)

\* rtol: None (p = 0) or given (p = 1)
torch_pinv(x, p, out) ==
    IF p = 0
    THEN NativeOut(x.dtype, "res", T1("pinv", x), out)
    ELSE NativeOut(x.dtype, "res", T1("pinv_rtol", x), out)

\* mode: "reduced" (p = 0), "complete" (p = 1), anything else (p = 2)
torch_qr(x, p, out) ==
    CASE p = 0 ->
           Res(Tuple("qr", <<"Q", "R">>,
                     <<Fresh(x.dtype, "res", T1("qr_some_q", x)),
                       Fresh(x.dtype, "res", T1("qr_some_r", x))>>), out, "")
      [] p = 1 ->
           Res(Tuple("qr", <<"Q", "R">>,
                     <<Fresh(x.dtype, "res", T1("qr_full_q", x)),
                       Fresh(x.dtype, "res", T1("qr_full_r", x))>>), out, "")
      [] OTHER -> Res(None, out, "IvyException")

torch_slogdet(x) ==
    Res(Tuple("slogdet", <<"sign", "logabsdet">>,
              <<Fresh(x.dtype, "res", T1("slogdet_sign", x)),
                Fresh(x.dtype, "res", T1("slogdet_logabsdet", x))>>),
        None, "")

\* x2 of shape (..., M, K) (p = 0), x2 of shape (M,) (p = 1), an operand
\* without elements (p = 2); torch.Tensor([]) has torch's default dtype
torch_solve(x1, x2, p, out) ==
    LET pr == promote_types_of_inputs(x1, x2)
        d  == pr[1].dtype
    IN  CASE p = 0 -> NativeNoOut(d, "res", T2("solve", x1, x2), out)
          [] p = 1 -> NativeNoOut(d, "res", T2("solve", x1, x2), out)
          [] OTHER -> NativeNoOut("float32", "res", "empty", out)

\* svd returning U, S, Vh whatever compute_uv is
torch_svd_AlwaysUV(x, p) ==
    Res(Tuple("svd", <<"U", "S", "Vh">>,
              <<Fresh(x.dtype, "res", T1("svd_u", x)),
                Fresh(x.dtype, "res", T1("svd_s", x)),
                Fresh(x.dtype, "res", T1("svd_vh", x))>>), None, "")

\* compute_uv: True (p = 0) or False (p = 1)
torch_svd(x, p) ==
    IF p = 0
    THEN Res(Tuple("svd", <<"U", "S", "Vh">>,
                   <<Fresh(x.dtype, "res", T1("svd_u", x)),
                     Fresh(x.dtype, "res", T1("svd_s", x)),
                     Fresh(x.dtype, "res", T1("svd_vh", x))>>), None, "")
    ELSE Res(Tuple("svd", <<"S">>,
                   <<Fresh(x.dtype, "res", T1("svd_s", x))>>), None, "")

torch_svdvals(x, p, out) == NativeOut(x.dtype, "res", T1("svdvals", x), out)

\* axes: 2 (p = 0) or 0 (p = 1); the operands are contracted in float32
torch_tensordot(x1, x2, p, out) ==
    LET dtype == promote_types(x1.dtype, x2.dtype)
        r     == IF p = 1
                 THEN Fresh("float32", "res", T2("reshape_mul", x1, x2))
                 ELSE Fresh("float32", "res", T2("tensordot", x1, x2))
    IN  Res(CastTo(r, dtype), out, "")

torch_trace(x, p, out) ==
    NativeNoOut(x.dtype, "()", T1("sum_diagonal", x), out)

\* `dtype != "float64"` compares a native dtype with a string
native_dtype_ne_str == TRUE

\* lines 409-410 of vecdot: the operands as torch.tensordot receives them
vecdot_operands(x1, x2) ==
    IF native_dtype_ne_str
    THEN <<CastTo(x1, "float32"), CastTo(x2, "float32")>>
    ELSE <<x1, x2>>

torch_vecdot(x1, x2, p, out) ==
    LET dtype == promote_types(x1.dtype, x2.dtype)
        a     == vecdot_operands(x1, x2)
        kd    == promote_types(a[1].dtype, a[2].dtype)
        k     == NativeOut(kd, "res", T2("tensordot_axis", x1, x2), out)
    IN  Res(CastTo(k.ret, dtype), k.out, "")

\* axis: None (p = 0, a zero-dimensional norm) or given (p = 1)
torch_vector_norm(x, p, out) ==
    LET shape == IF p = 0 THEN "()" ELSE "res"
        k     == NativeOut(x.dtype, shape, T1("vector_norm", x), out)
    IN  IF k.ret.shape = "()"
        THEN Res([k.ret EXCEPT !.shape = "(1,)", !.id = "new"], k.out, "")
        ELSE k

torch_vector_to_skew_symmetric_matrix(x, p, out) ==
    NativeOut(x.dtype, "res", T1("cat_rows", x), out)

torch_vander(x, p, out) == NativeNoOut(x.dtype, "res", T1("vander", x), out)

\* the backend function of each operation, called as the unified body calls it
TorchFn(op, x1, x2, p, out) ==
    CASE op = "cholesky" -> torch_cholesky(x1, p, out)
      [] op = "cross" -> torch_cross(x1, x2, p, out)
      [] op = "det" -> torch_det(x1, p, out)
      [] op = "diag" -> torch_diag(x1, p, out)
      [] op = "diagonal" -> torch_diagonal(x1, p, out)
      [] op = "eigh" -> torch_eigh(x1, p, out)
      [] op = "eigvalsh" -> torch_eigvalsh(x1, p, out)
      [] op = "inner" -> torch_inner(x1, x2, p, out)
      [] op = "inv" -> torch_inv(x1, p, out)
      [] op = "matmul" -> torch_matmul(x1, x2, p, out)
      [] op = "matrix_norm" -> torch_matrix_norm(x1, p, out)
      [] op = "matrix_power" -> torch_matrix_power(x1, p, out)
      [] op = "matrix_rank" -> torch_matrix_rank(x1, p, out)
      [] op = "matrix_transpose" -> torch_matrix_transpose(x1, p, out)
      [] op = "outer" -> torch_outer(x1, x2, p, out)
      [] op = "pinv" -> torch_pinv(x1, p, out)
      [] op = "qr" -> torch_qr(x1, p, out)
      [] op = "slogdet" -> torch_slogdet(x1)
      [] op = "solve" -> torch_solve(x1, x2, p, out)
      [] op = "svd" -> torch_svd(x1, p)
      [] op = "svdvals" -> torch_svdvals(x1, p, out)
      [] op = "tensordot" -> torch_tensordot(x1, x2, p, out)
      [] op = "trace" -> torch_trace(x1, p, out)
      [] op = "vecdot" -> torch_vecdot(x1, x2, p, out)
      [] op = "vector_norm" -> torch_vector_norm(x1, p, out)
      [] op = "vector_to_skew_symmetric_matrix" ->
            torch_vector_to_skew_symmetric_matrix(x1, p, out)
      [] op = "vander" -> torch_vander(x1, p, out)

\* the torch functions that take an out parameter
TorchHasOutParam(op) == op \notin {"slogdet", "svd"}

\* <function>.support_native_out: "True", "False" or "unset"
support_native_out(op) ==
    CASE op \in {"cholesky", "cross", "det", "eigh", "eigvalsh", "inner",
                 "inv", "matmul", "matrix_norm", "matrix_power",
                 "matrix_rank", "outer", "pinv", "slogdet", "svdvals",
                 "vecdot", "vector_norm", "vector_to_skew_symmetric_matrix"}
            -> "True"
      [] op = "vander" -> "False"
      [] OTHER -> "unset"

\* @with_unsupported_dtypes({"1.11.0 and below": (...)}, version): the
\* entries, each a version bound and the dtypes unsupported up to it
with_unsupported_dtypes(op) ==
    CASE op \in {"cholesky", "det", "eigh", "eigvalsh", "inv", "matrix_norm",
                 "matrix_rank", "pinv", "qr", "slogdet", "solve", "svd",
                 "svdvals"}
            -> {[upto |-> <<1, 11, 0>>, dtypes |-> {"float16", "bfloat16"}]}
      [] op = "cross" -> {[upto |-> <<1, 11, 0>>, dtypes |-> {"float16"}]}
      [] op = "inner" -> {[upto |-> <<1, 11, 0>>, dtypes |-> {"int8"}]}
      [] op = "tensordot" -> {[upto |-> <<1, 11, 0>>, dtypes |-> {"int32"}]}
      [] OTHER -> {}

\* the attribute left unset
unsupported_dtypes_Unset(op) == {}

\* <function>.unsupported_dtypes = (...): set for every version
unsupported_dtypes(op) ==
    IF op \in {"trace", "vander"} THEN {"float16", "bfloat16"} ELSE {}

-----------------------------------------------------------------------------
(* Containers *)

RECURSIVE LeafPaths(_)
RECURSIVE ItemPaths(_)

\* the leaf paths of the items of a Container, in item order
ItemPaths(items) ==
    IF items = <<>> THEN <<>>
    ELSE LET sub == LeafPaths(Head(items).v)
         IN  [i \in 1..Len(sub) |-> <<Head(items).k>> \o sub[i]]
                \o ItemPaths(Tail(items))

\* the paths (key sequences) of the leaves of a value, in order
LeafPaths(v) == IF IsContainer(v) THEN ItemPaths(v.items) ELSE << <<>> >>

HasKey(c, k) == \E i \in 1..Len(c.items) : c.items[i].k = k

AtKey(c, k) == c.items[CHOOSE i \in 1..Len(c.items) : c.items[i].k = k].v

RECURSIVE HasPath(_, _)
HasPath(v, path) ==
    IF path = <<>> THEN TRUE
    ELSE IsContainer(v) /\ HasKey(v, Head(path))
            /\ HasPath(AtKey(v, Head(path)), Tail(path))

RECURSIVE GetPath(_, _)
GetPath(v, path) ==
    IF path = <<>> THEN v ELSE GetPath(AtKey(v, Head(path)), Tail(path))

\* a Container with the keys and key order of `like`, holding at each leaf
\* path the result computed for that path
RECURSIVE Assemble(_, _, _, _)
Assemble(like, prefix, paths, results) ==
    IF IsContainer(like)
    THEN Cont([i \in 1..Len(like.items) |->
                 Item(like.items[i].k,
                      Assemble(like.items[i].v, prefix \o <<like.items[i].k>>,
                               paths, results))])
    ELSE results[CHOOSE i \in 1..Len(paths) : paths[i] = prefix]

-----------------------------------------------------------------------------
(* The native value adapter (ivy.to_native, ivy.to_ivy) *)

RECURSIVE HasOther(_)
HasOther(v) ==
    CASE IsContainer(v) -> \E i \in 1..Len(v.items) : HasOther(v.items[i].v)
      [] OTHER -> v.kind = "other"

RECURSIVE to_native(_)
to_native(v) ==
    CASE IsContainer(v) ->
           Cont([i \in 1..Len(v.items) |->
                   Item(v.items[i].k, to_native(v.items[i].v))])
      [] v.kind = "ivy" -> [v EXCEPT !.kind = "native"]
      [] OTHER -> v

RECURSIVE to_ivy(_)
to_ivy(v) ==
    CASE IsContainer(v) ->
           Cont([i \in 1..Len(v.items) |->
                   Item(v.items[i].k, to_ivy(v.items[i].v))])
      [] v.kind = "tuple" ->
           [v EXCEPT !.items = [i \in 1..Len(v.items) |-> to_ivy(v.items[i])]]
      [] v.kind = "native" -> [v EXCEPT !.kind = "ivy"]
      [] OTHER -> v

\* the array leaves of a returned value, as paths
RetPaths(v) ==
    IF v.kind = "tuple" THEN [i \in 1..Len(v.items) |-> <<v.fields[i]>>]
    ELSE LeafPaths(v)

-----------------------------------------------------------------------------
(* Exceptions *)

\* an exception of the normalized taxonomy
Err(kind, msg) == [kind |-> kind, msg |-> msg, raw |-> FALSE]

\* an exception of the native backend, as the backend raised it
RawErr(kind, msg) == [kind |-> kind, msg |-> msg, raw |-> TRUE]

\* handle_exceptions: a raw exception re-raised as a normalized one that
\* carries the original message
Normalize(e) ==
    IF e.raw THEN Err("BackendKernelError", e.kind \o ": " \o e.msg) ELSE e

-----------------------------------------------------------------------------
(* The backend registry (ivy.backend_handler) and the dtype guard *)

\* the backends of the native tensors among the given arguments
ArgBackends(as) == {as[i].be : i \in {j \in 1..Len(as) : as[j].kind = "native"}}

\* current_backend(*args): the active backend, provided the arguments do not
\* come from two backends or from another backend than the active one
current_backend(as) ==
    IF active = NoBackend
    THEN [ok |-> FALSE, err |-> Err("NoBackendSelected", "no backend set")]
    ELSE IF ArgBackends(as) \subseteq {active}
    THEN [ok |-> TRUE, be |-> active]
    ELSE [ok |-> FALSE,
          err |-> Err("AmbiguousBackend", "arguments of another backend")]

VersionLE(a, b) ==
    \/ a[1] < b[1]
    \/ a[1] = b[1] /\ a[2] < b[2]
    \/ a[1] = b[1] /\ a[2] = b[2] /\ a[3] <= b[3]

\* the dtypes a torch function does not support at a version: those of its
\* unsupported_dtypes attribute and those of the decorator entries that cover
\* the version
function_unsupported_dtypes(op, version) ==
    unsupported_dtypes(op) \cup
    UNION {e.dtypes : e \in {f \in with_unsupported_dtypes(op) :
                                VersionLE(version, f.upto)}}

\* whether handle_out_argument leaves the write into out to the backend
HandleOutInBackend(op) == active = "torch" /\ support_native_out(op) = "True"

-----------------------------------------------------------------------------
(* The calls made on the unified surface *)

\* the stages at which the native backend may fail
FaultStages == {"to_native", "kernel", "out", "to_ivy"}

\* the plain values a caller can pass: unified arrays of the backends that have
\* been active, native tensors of any backend, and a value that is no array
PlainArgs(id, val, dtype) ==
    {Arr("ivy", b, id, dtype, "in", val) : b \in everActive}
       \cup {Arr("native", b, id, dtype, "in", val) : b \in Backends}

NotAnArray(id) == Arr("other", NoBackend, id, "float32", "in", "object")

\* the shape of the value the torch function returns without out
NoOutShape(op, p) ==
    LET r == TorchFn(op, Arr("native", "torch", "x1", "float32", "in", "A"),
                     Arr("native", "torch", "x2", "float32", "in", "B"),
                     p, None)
    IN  IF r.raised = "" /\ r.ret.kind = "native" THEN r.ret.shape ELSE "res"

\* the out buffers a caller can pass: a unified array of the active backend,
\* of the result's shape or of another shape
Outs(op, p) ==
    IF op \in NoOutOps \/ active = NoBackend
    THEN {None}
    ELSE {None} \cup
         {Arr("ivy", active, "out", "float32", sh, "zeros") :
             sh \in {NoOutShape(op, p), "(3,)"}}

\* a Container of nesting depth d: {a: leaf, b: {a: leaf, b: ...}}; rev gives
\* the same keys in the opposite order
RECURSIVE Chain(_, _, _, _, _)
Chain(d, tag, kind, be, rev) ==
    LET a == Item("a", Arr(kind, be, tag \o "a", "float32", "in", tag \o "a"))
        b == Item("b", IF d <= 1
                       THEN Arr(kind, be, tag \o "b", "float32", "in",
                                tag \o "b")
                       ELSE Chain(d - 1, tag \o "b", kind, be, rev))
    IN  Cont(IF rev THEN <<b, a>> ELSE <<a, b>>)

\* the kinds of array a Container can hold in the current state
LeafKinds ==
    {<<"native", "torch">>} \cup {<<"ivy", b>> : b \in everActive \cap {"torch"}}

Call(op, x1, x2, p, out, version, fault) ==
    /\ pc = "idle"
    /\ call' = [op |-> op, x1 |-> x1, x2 |-> x2, p |-> p, out |-> out,
                version |-> version, fault |-> fault]
    /\ pc' = "enter"
    /\ depth' = 1
    /\ args' = <<x1, x2>>
    /\ outbuf' = out
    /\ UNCHANGED <<active, everActive, outarg, leaves, leafIdx, leafRes, ret,
                   err, log, kernels>>

\* plain arrays of every origin, every path of the backend function, with
\* and without out
CallDispatch ==
    /\ pc = "idle"
    /\ \E op \in Ops :
       \E x1 \in PlainArgs("x1", "A", "float32") \cup {NotAnArray("x1")} :
       \E x2 \in IF op \in TwoOperandOps
                 THEN PlainArgs("x2", "B", "float32") ELSE {None} :
       \E p \in Params(op) :
       \E out \in Outs(op, p) :
           Call(op, x1, x2, p, out, <<1, 12, 1>>, "none")

\* every dtype at every backend version, on every path of the backend function
CallDtypes ==
    /\ pc = "idle"
    /\ \E op \in Ops :
       \E d1 \in Dtypes, d2 \in Dtypes :
       \E version \in Versions :
       \E p \in Params(op) :
           Call(op, Arr("native", "torch", "x1", d1, "in", "A"),
                IF op \in TwoOperandOps
                THEN Arr("native", "torch", "x2", d2, "in", "B") ELSE None,
                p, None, version, "none")

\* a failure of the native backend at one stage of the call
CallFaulty ==
    /\ pc = "idle"
    /\ active # NoBackend
    /\ \E op \in Ops :
       \E fault \in FaultStages :
       \E out \in Outs(op, 0) :
           /\ out # None => out.shape # "(3,)"
           /\ Call(op, Arr("native", active, "x1", "float32", "in", "A"),
                   IF op \in TwoOperandOps
                   THEN Arr("native", active, "x2", "float32", "in", "B")
                   ELSE None,
                   0, out, <<1, 12, 1>>, fault)

\* Containers in place of the arrays
CallContainers ==
    /\ pc = "idle"
    /\ \E op \in Ops :
       \E k \in LeafKinds :
       \E d1 \in 0..MaxDepth, d2 \in 0..MaxDepth :
       \E rev \in BOOLEAN :
           /\ d1 > 0 \/ d2 > 0
           /\ d2 <= d1 \/ d1 = 0
           /\ op \notin TwoOperandOps => d2 = 0 /\ ~rev
           /\ Call(op,
                   IF d1 = 0 THEN Arr(k[1], k[2], "x1", "float32", "in", "A")
                   ELSE Chain(d1, "A", k[1], k[2], FALSE),
                   IF op \notin TwoOperandOps THEN None
                   ELSE IF d2 = 0 THEN Arr(k[1], k[2], "x2", "float32", "in", "B")
                   ELSE Chain(d2, "B", k[1], k[2], rev),
                   0, None, <<1, 12, 1>>, "none")

-----------------------------------------------------------------------------
(* The pipeline of one call *)

NDecorators == Len(Decorators(call.op))

Decorator == Decorators(call.op)[depth]

\* the arguments the layers inside handle_nestable see: the leaves at the
\* current path of the Containers, the other arguments as they are
CurArgs ==
    IF leafIdx = 0 THEN args
    ELSE [i \in 1..2 |-> IF IsContainer(args[i])
                         THEN GetPath(args[i], leaves[leafIdx])
                         ELSE args[i]]

CurPath == IF leafIdx = 0 THEN <<>> ELSE leaves[leafIdx]

\* control passes to the next decorator inwards, or to the function body
Down ==
    /\ pc' = IF depth = NDecorators THEN "body" ELSE "enter"
    /\ depth' = IF depth = NDecorators THEN depth ELSE depth + 1
    /\ err' = err

\* control returns to the next decorator outwards, or to the caller
Up ==
    /\ pc' = IF depth = 1 THEN "done" ELSE "exit"
    /\ depth' = depth - 1
    /\ err' = err

\* exception e leaves the layer just inside decorator number d
Raise(e, d) ==
    /\ err' = e
    /\ pc' = IF d = 0 THEN "done" ELSE "unwind"
    /\ depth' = d

Events(ev, name, v) ==
    IF v = None THEN <<>>
    ELSE [i \in 1..Len(LeafPaths(v)) |->
             [ev |-> ev, arg |-> name, path |-> LeafPaths(v)[i]]]

\* inputs_to_native_arrays: every array of the arguments converted to native
to_native_arrays_and_back_enter ==
    /\ pc = "enter"
    /\ Decorator = "to_native_arrays_and_back"
    /\ IF call.fault = "to_native"
       THEN /\ Raise(RawErr("RuntimeError", "conversion to native"), depth - 1)
            /\ UNCHANGED <<args, log>>
       ELSE IF HasOther(args[1]) \/ HasOther(args[2])
       THEN /\ Raise(Err("UnsupportedNativeType", "not an array"), depth - 1)
            /\ UNCHANGED <<args, log>>
       ELSE /\ args' = <<to_native(args[1]), to_native(args[2])>>
            /\ log' = log \o Events("to_native", "x1", args[1])
                          \o Events("to_native", "x2", args[2])
            /\ Down
    /\ UNCHANGED <<active, everActive, call, outarg, outbuf, leaves, leafIdx,
                   leafRes, ret, kernels>>

\* handle_out_argument, before the call: out goes to the backend function
\* only when the function writes into it natively
handle_out_argument_enter ==
    /\ pc = "enter"
    /\ Decorator = "handle_out_argument"
    /\ outarg' = IF call.out # None /\ HandleOutInBackend(call.op)
                 THEN to_native(outbuf) ELSE None
    /\ Down
    /\ UNCHANGED <<active, everActive, call, args, outbuf, leaves, leafIdx,
                   leafRes, ret, log, kernels>>

AnyContainer == IsContainer(args[1]) \/ IsContainer(args[2])

\* the first argument taken for the Container to map over, whatever it is
Primary_FirstArg == args[1]

\* the Container whose keys are mapped over: the first one among the arguments
Primary == IF IsContainer(args[1]) THEN args[1] ELSE args[2]

\* no Container is asked whether it has the path
PathInAll_Unchecked(path) == TRUE

\* every Container among the arguments has an array at the path
PathInAll(path) ==
    \A i \in 1..2 : IsContainer(args[i]) =>
        HasPath(args[i], path) /\ ~IsContainer(GetPath(args[i], path))

\* handle_nestable, before the call: with a Container among the arguments the
\* function is mapped over the leaves, starting with the first one
handle_nestable_enter ==
    /\ pc = "enter"
    /\ Decorator = "handle_nestable"
    /\ IF ~AnyContainer
       THEN /\ Down
            /\ UNCHANGED <<leaves, leafIdx, leafRes>>
       ELSE /\ leaves' = LeafPaths(Primary)
            /\ leafRes' = <<>>
            /\ IF PathInAll(LeafPaths(Primary)[1])
               THEN leafIdx' = 1 /\ Down
               ELSE /\ leafIdx' = 0
                    /\ Raise(Err("KeyMismatch", "key missing"), depth - 1)
    /\ UNCHANGED <<active, everActive, call, args, outarg, outbuf, ret, log,
                   kernels>>

\* handle_exceptions, before the call: the try block is entered
handle_exceptions_enter ==
    /\ pc = "enter"
    /\ Decorator = "handle_exceptions"
    /\ Down
    /\ UNCHANGED <<active, everActive, call, args, outarg, outbuf, leaves,
                   leafIdx, leafRes, ret, log, kernels>>

\* the arguments the body of the unified function hands to current_backend
ResolverSel(op, a) ==
    CASE ResolverArgs(op) = "x1x2" -> <<a[1], a[2]>>
      [] ResolverArgs(op) = "x1" -> <<a[1]>>
      [] OTHER -> <<>>

\* the function of backend be for the operation; only torch's are in the
\* source, another backend's function is known by its result alone
BackendFn(be, op, x1, x2, p, out) ==
    IF be = "torch" THEN TorchFn(op, x1, x2, p, out)
    ELSE Res(Arr("native", be, "new", x1.dtype, "res", T1(op, x1)), out, "")

BackendUnsupported(be, op, version) ==
    IF be = "torch" THEN function_unsupported_dtypes(op, version) ELSE {}

\* the body calling the torch backend without asking current_backend
BodyBackend_Torch(op, a) == [ok |-> TRUE, be |-> "torch"]

\* the backend the body of the unified function dispatches to
BodyBackend(op, a) == current_backend(ResolverSel(op, a))

\* the body of every unified function:
\*     return current_backend(...).<op>(x1, x2, ..., out=out)
\* The backend function refuses unsupported dtypes, then runs its kernels.
\* A native kernel handed a Container raises; handed a tensor of another
\* backend it either raises or takes it for one of its own.
Body ==
    /\ pc = "body"
    /\ LET op      == call.op
           a       == CurArgs
           cb      == BodyBackend(op, a)
           tensors == SelectSeq(a, IsArr)
           out     == IF ForwardsOut(op) THEN outarg ELSE None
           n       == NDecorators
       IN  IF ~cb.ok
           THEN /\ Raise(cb.err, n)
                /\ UNCHANGED <<ret, outbuf, log, kernels>>
           ELSE IF \E i \in 1..Len(tensors) :
                      tensors[i].dtype
                         \in BackendUnsupported(cb.be, op, call.version)
           THEN /\ Raise(Err("UnsupportedDtype", op), n)
                /\ UNCHANGED <<ret, outbuf, log, kernels>>
           ELSE /\ kernels' = Append(kernels,
                                 [be |-> cb.be, op |-> op, path |-> CurPath,
                                  on |-> {tensors[i].be :
                                             i \in 1..Len(tensors)}])
                /\ log' = Append(log, [ev |-> "kernel", arg |-> "",
                                       path |-> CurPath])
                /\ IF call.fault = "kernel"
                   THEN /\ Raise(RawErr("RuntimeError", "kernel failed"), n)
                        /\ UNCHANGED <<ret, outbuf>>
                   ELSE IF IsContainer(a[1]) \/ IsContainer(a[2])
                   THEN /\ Raise(RawErr("TypeError", "not a tensor"), n)
                        /\ UNCHANGED <<ret, outbuf>>
                   ELSE \/ /\ \E i \in 1..Len(tensors) : tensors[i].be # cb.be
                           /\ Raise(RawErr("TypeError", "not a tensor"), n)
                           /\ UNCHANGED <<ret, outbuf>>
                        \/ LET r == BackendFn(cb.be, op, a[1], a[2], call.p, out)
                           IN  /\ outbuf' = IF out = None THEN outbuf
                                            ELSE inplace_update(outbuf, r.out)
                               /\ IF r.raised # ""
                                  THEN /\ Raise(RawErr(r.raised, op), n)
                                       /\ ret' = ret
                                  ELSE /\ ret' = r.ret
                                       /\ pc' = "exit"
                                       /\ depth' = n
                                       /\ err' = err
    /\ UNCHANGED <<active, everActive, call, args, outarg, leaves, leafIdx,
                   leafRes>>

\* handle_exceptions, after the call returned: nothing to catch
handle_exceptions_exit ==
    /\ pc = "exit"
    /\ Decorator = "handle_exceptions"
    /\ Up
    /\ UNCHANGED <<active, everActive, call, args, outarg, outbuf, leaves,
                   leafIdx, leafRes, ret, log, kernels>>

\* handle_nestable, after the call returned: the leaf's result is kept and
\* the next leaf computed; after the last leaf the Container is assembled
handle_nestable_exit ==
    /\ pc = "exit"
    /\ Decorator = "handle_nestable"
    /\ IF leafIdx = 0
       THEN /\ Up
            /\ UNCHANGED <<leafIdx, leafRes, ret>>
       ELSE /\ leafRes' = Append(leafRes, ret)
            /\ IF leafIdx < Len(leaves)
               THEN /\ ret' = ret
                    /\ IF PathInAll(leaves[leafIdx + 1])
                       THEN leafIdx' = leafIdx + 1 /\ Down
                       ELSE /\ leafIdx' = 0
                            /\ Raise(Err("KeyMismatch", "key missing"),
                                     depth - 1)
               ELSE /\ ret' = Assemble(Primary, <<>>, leaves, leafRes')
                    /\ leafIdx' = 0
                    /\ Up
    /\ UNCHANGED <<active, everActive, call, args, outarg, outbuf, leaves,
                   log, kernels>>

\* handle_out_argument, after the call returned: out is returned, after the
\* result was copied into it unless the backend function was given out
handle_out_argument_exit ==
    /\ pc = "exit"
    /\ Decorator = "handle_out_argument"
    /\ log' = Append(log, [ev |-> "out", arg |-> "", path |-> <<>>])
    /\ IF call.out = None
       THEN /\ Up
            /\ UNCHANGED <<ret, outbuf>>
       ELSE IF call.fault = "out"
       THEN /\ Raise(RawErr("RuntimeError", "write into out"), depth - 1)
            /\ UNCHANGED <<ret, outbuf>>
       ELSE /\ outbuf' = IF outarg # None THEN outbuf
                         ELSE inplace_update(outbuf, ret)
            /\ ret' = outbuf'
            /\ Up
    /\ UNCHANGED <<active, everActive, call, args, outarg, leaves, leafIdx,
                   leafRes, kernels>>

\* outputs_to_ivy_arrays: every array of the result converted to unified
to_native_arrays_and_back_exit ==
    /\ pc = "exit"
    /\ Decorator = "to_native_arrays_and_back"
    /\ IF call.fault = "to_ivy"
       THEN /\ Raise(RawErr("RuntimeError", "conversion to ivy"), depth - 1)
            /\ UNCHANGED <<ret, log>>
       ELSE /\ ret' = to_ivy(ret)
            /\ log' = log \o [i \in 1..Len(RetPaths(ret)) |->
                                [ev |-> "to_ivy", arg |-> "ret",
                                 path |-> RetPaths(ret)[i]]]
            /\ Up
    /\ UNCHANGED <<active, everActive, call, args, outarg, outbuf, leaves,
                   leafIdx, leafRes, kernels>>

\* an exception passes handle_exceptions: a raw one is normalized
handle_exceptions_catch ==
    /\ pc = "unwind"
    /\ Decorator = "handle_exceptions"
    /\ err' = Normalize(err)
    /\ depth' = depth - 1
    /\ pc' = IF depth = 1 THEN "done" ELSE "unwind"
    /\ UNCHANGED <<active, everActive, call, args, outarg, outbuf, leaves,
                   leafIdx, leafRes, ret, log, kernels>>

\* an exception passes any other decorator unchanged
Propagate ==
    /\ pc = "unwind"
    /\ Decorator # "handle_exceptions"
    /\ depth' = depth - 1
    /\ pc' = IF depth = 1 THEN "done" ELSE "unwind"
    /\ UNCHANGED <<active, everActive, call, args, outarg, outbuf, leaves,
                   leafIdx, leafRes, ret, err, log, kernels>>

\* the call is over: the caller has the result or the exception
Return ==
    /\ pc = "done"
    /\ pc' = "idle"
    /\ call' = None
    /\ depth' = 0
    /\ args' = <<None, None>>
    /\ outarg' = None
    /\ outbuf' = None
    /\ leaves' = <<>>
    /\ leafIdx' = 0
    /\ leafRes' = <<>>
    /\ ret' = None
    /\ err' = None
    /\ log' = <<>>
    /\ kernels' = <<>>
    /\ UNCHANGED <<active, everActive>>

\* ivy.set_backend(b): b becomes the active backend; the arrays that exist
\* stay what they are
set_backend(b) ==
    /\ pc = "idle"
    /\ active' = b
    /\ everActive' = everActive \cup {b}
    /\ UNCHANGED <<call, pc, depth, args, outarg, outbuf, leaves, leafIdx,
                   leafRes, ret, err, log, kernels>>

SetBackend == \E b \in Backends : set_backend(b)

Init ==
    /\ active = NoBackend
    /\ everActive = {}
    /\ call = None
    /\ pc = "idle"
    /\ depth = 0
    /\ args = <<None, None>>
    /\ outarg = None
    /\ outbuf = None
    /\ leaves = <<>>
    /\ leafIdx = 0
    /\ leafRes = <<>>
    /\ ret = None
    /\ err = None
    /\ log = <<>>
    /\ kernels = <<>>

Next ==
    \/ SetBackend
    \/ CallDispatch
    \/ CallDtypes
    \/ CallFaulty
    \/ CallContainers
    \/ to_native_arrays_and_back_enter
    \/ handle_out_argument_enter
    \/ handle_nestable_enter
    \/ handle_exceptions_enter
    \/ Body
    \/ handle_exceptions_exit
    \/ handle_nestable_exit
    \/ handle_out_argument_exit
    \/ to_native_arrays_and_back_exit
    \/ handle_exceptions_catch
    \/ Propagate
    \/ Return

Spec == Init /\ [][Next]_vars

-----------------------------------------------------------------------------
(* ivy.Container.layer_norm (container/norms.py) *)

\* a parameter value that is no array: a list of indices, a float
Plain(val) == [kind |-> "plain", val |-> val]

ParamVal(v) == IF v = None THEN "None" ELSE v.val

\* ivy.layer_norm on one array: the normalized array, written into out when
\* out is given
layer_norm_leaf(x, normalized_idxs, weight, bias, epsilon, new_std, out) ==
    LET val == "layer_norm(" \o x.val \o "," \o ParamVal(normalized_idxs)
                  \o ",weight=" \o ParamVal(weight)
                  \o ",bias=" \o ParamVal(bias)
                  \o ",epsilon=" \o ParamVal(epsilon)
                  \o ",new_std=" \o ParamVal(new_std) \o ")"
    IN  IF out = None
        THEN Arr("ivy", x.be, "new", x.dtype, x.shape, val)
        ELSE [out EXCEPT !.shape = x.shape, !.val = val]

\* ivy.layer_norm, a nestable function: with a Container as x it is applied
\* at every leaf path of x, each Container among the other arguments giving
\* its value at the path and each plain argument being used as it is
ivy_layer_norm(x, normalized_idxs, weight, bias, epsilon, new_std, out) ==
    IF ~IsContainer(x)
    THEN layer_norm_leaf(x, normalized_idxs, weight, bias, epsilon, new_std,
                         out)
    ELSE LET paths == LeafPaths(x)
             at(v, i) == IF IsContainer(v) THEN GetPath(v, paths[i]) ELSE v
         IN  Assemble(x, <<>>, paths,
                      [i \in 1..Len(paths) |->
                         layer_norm_leaf(at(x, i), at(normalized_idxs, i),
                                         at(weight, i), at(bias, i),
                                         at(epsilon, i), at(new_std, i),
                                         at(out, i))])

\* the method forwarding new_std's default instead of the argument
layer_norm_DefaultStd(self, normalized_idxs, weight, bias, epsilon, new_std, out) ==
    ivy_layer_norm(self, normalized_idxs, weight, bias, epsilon, Plain("1.0"),
                   out)

\* ContainerWithNorms.layer_norm
layer_norm(self, normalized_idxs, weight, bias, epsilon, new_std, out) ==
    ivy_layer_norm(self, normalized_idxs, weight, bias, epsilon, new_std, out)

\* a Container with the keys of c holding at each key a parameter value of
\* its own
RECURSIVE ParamLike(_, _)
ParamLike(c, tag) ==
    Cont([i \in 1..Len(c.items) |->
            Item(c.items[i].k,
                 IF IsContainer(c.items[i].v)
                 THEN ParamLike(c.items[i].v, tag)
                 ELSE Plain(tag \o "@" \o c.items[i].v.id))])

\* a Container with the keys of c holding buffers to write into
RECURSIVE OutLike(_)
OutLike(c) ==
    Cont([i \in 1..Len(c.items) |->
            Item(c.items[i].k,
                 IF IsContainer(c.items[i].v)
                 THEN OutLike(c.items[i].v)
                 ELSE [c.items[i].v EXCEPT !.id = "out" \o c.items[i].v.id,
                                           !.val = "zeros"])])

\* x.layer_norm(normalized_idxs, weight=, bias=, epsilon=, new_std=, out=)
\* on a Container x of arrays of the active backend
CallLayerNorm ==
    /\ pc = "idle"
    /\ active # NoBackend
    /\ \E d \in 1..MaxDepth :
       LET self == Chain(d, "X", "ivy", active, FALSE) IN
       \E normalized_idxs \in {Plain("[0]"), ParamLike(self, "idxs")} :
       \E weight \in {None, Plain("0.3"), ParamLike(self, "w")} :
       \E bias \in {None, Plain("0.5"), ParamLike(self, "b")} :
       \E epsilon \in {Plain("MIN_BASE"), Plain("1.25")} :
       \E new_std \in {Plain("1.0"), Plain("1.5"), ParamLike(self, "std")} :
       \E out \in {None, OutLike(self)} :
          /\ call' = [op |-> "layer_norm", x1 |-> self, x2 |-> None,
                      normalized_idxs |-> normalized_idxs,
                      weight |-> weight, bias |-> bias,
                      epsilon |-> epsilon, new_std |-> new_std, out |-> out]
          /\ ret' = layer_norm(self, normalized_idxs, weight, bias, epsilon,
                               new_std, out)
          /\ pc' = "done"
          /\ UNCHANGED <<active, everActive, depth, args, outarg, outbuf,
                         leaves, leafIdx, leafRes, err, log, kernels>>

NextNorms == SetBackend \/ CallLayerNorm \/ Return

SpecNorms == Init /\ [][NextNorms]_vars

-----------------------------------------------------------------------------
(* ivy.promote_types on the dtype enumeration *)

\* the dtypes of the promotion table
AllDtypes == Dtypes \cup {"int64", "float64"}

\* the promotions of three dtypes, in the two operand orders and the two
\* groupings, and of two operands through promote_types_of_inputs
CallPromote ==
    /\ pc = "idle"
    /\ \E a \in AllDtypes, b \in AllDtypes, c \in AllDtypes :
          LET x1 == Arr("native", "torch", "x1", a, "in", "A")
              x2 == Arr("native", "torch", "x2", b, "in", "B")
          IN
          /\ call' = [op |-> "promote_types", x1 |-> x1, x2 |-> x2,
                      c |-> c, out |-> None]
          /\ ret' = [kind |-> "dtypes",
                     ab   |-> promote_types(a, b),
                     ba   |-> promote_types(b, a),
                     ab_c |-> promote_types(promote_types(a, b), c),
                     a_bc |-> promote_types(a, promote_types(b, c)),
                     x1x2 |-> promote_types_of_inputs(x1, x2),
                     x2x1 |-> promote_types_of_inputs(x2, x1)]
          /\ pc' = "done"
          /\ UNCHANGED <<active, everActive, depth, args, outarg, outbuf,
                         leaves, leafIdx, leafRes, err, log, kernels>>

\* vecdot on operands of every pair of dtypes: the operands as the kernel
\* receives them, and the result
CallVecdotDtypes ==
    /\ pc = "idle"
    /\ \E a \in AllDtypes, b \in AllDtypes :
          LET x1 == Arr("native", "torch", "x1", a, "in", "A")
              x2 == Arr("native", "torch", "x2", b, "in", "B")
          IN
          /\ call' = [op |-> "vecdot", x1 |-> x1, x2 |-> x2, c |-> a,
                      out |-> None]
          /\ ret' = [kind |-> "vecdot",
                     operands |-> vecdot_operands(x1, x2),
                     ret |-> torch_vecdot(x1, x2, 0, None).ret]
          /\ pc' = "done"
          /\ UNCHANGED <<active, everActive, depth, args, outarg, outbuf,
                         leaves, leafIdx, leafRes, err, log, kernels>>

NextPromote == CallPromote \/ CallVecdotDtypes \/ Return

SpecPromote == Init /\ [][NextPromote]_vars

-----------------------------------------------------------------------------
(* The torch functions on arrays with contents *)

\* length of the vectors and matrices a caller passes
MaxLen == 3

\* a tensor with contents: its shape and its elements in row-major order
Tensor(shape, data) == [kind |-> "tensor", shape |-> shape, data |-> data]

Front(s) == SubSeq(s, 1, Len(s) - 1)

Last(s) == s[Len(s)]

Max(a, b) == IF a >= b THEN a ELSE b

Min(a, b) == IF a <= b THEN a ELSE b

RECURSIVE Size(_)
Size(shape) == IF shape = <<>> THEN 1 ELSE Size(Front(shape)) * Last(shape)

RECURSIVE SumSeq(_)
SumSeq(s) == IF s = <<>> THEN 0 ELSE Head(s) + SumSeq(Tail(s))

\* position of the element at a 0-based index
RECURSIVE Offset(_, _)
Offset(shape, idx) ==
    IF shape = <<>> THEN 0
    ELSE Offset(Front(shape), Front(idx)) * Last(shape) + Last(idx)

\* the 0-based index of the element at a position
RECURSIVE IdxOf(_, _)
IdxOf(shape, k) ==
    IF shape = <<>> THEN <<>>
    ELSE Append(IdxOf(Front(shape), k \div Last(shape)), k % Last(shape))

At(t, idx) == t.data[Offset(t.shape, idx) + 1]

\* the tensor of a shape whose element at each index is F(index)
MkT(shape, F(_)) ==
    Tensor(shape, [k \in 1..Size(shape) |-> F(IdxOf(shape, k - 1))])

Rank(t) == Len(t.shape)

\* torch.t: a vector as it is, a matrix transposed
torch_t(x) ==
    IF Rank(x) < 2 THEN x
    ELSE MkT(<<x.shape[2], x.shape[1]>>, LAMBDA idx : At(x, <<idx[2], idx[1]>>))

\* torch.matmul: the dot product of two vectors, a tensor without
\* dimensions; the matrix product of two matrices
native_matmul(x1, x2) ==
    IF Rank(x1) = 1
    THEN Tensor(<<>>, <<SumSeq([i \in 1..x1.shape[1] |->
                                   x1.data[i] * x2.data[i]])>>)
    ELSE MkT(<<x1.shape[1], x2.shape[2]>>,
             LAMBDA idx : SumSeq([k \in 1..x1.shape[2] |->
                                    At(x1, <<idx[1], k - 1>>)
                                       * At(x2, <<k - 1, idx[2]>>)]))

\* matmul dropping the last element of the vectors
matmul_values_Short(x1, x2, transpose_a, transpose_b) ==
    Tensor(<<>>, <<SumSeq([i \in 1..(x1.shape[1] - 1) |->
                             x1.data[i] * x2.data[i]])>>)

\* torch matmul(x1, x2, transpose_a=, transpose_b=)
matmul_values(x1, x2, transpose_a, transpose_b) ==
    LET a == IF transpose_a THEN torch_t(x1) ELSE x1
        b == IF transpose_b THEN torch_t(x2) ELSE x2
    IN  native_matmul(a, b)

\* the vectors of a length with elements of a set
Vectors(n, S) == {Tensor(<<n>>, d) : d \in [1..n -> S]}

CallValues(op, x1, x2, p, r) ==
    /\ pc = "idle"
    /\ call' = [op |-> op, x1 |-> x1, x2 |-> x2, p |-> p, out |-> None]
    /\ ret' = r
    /\ pc' = "done"
    /\ UNCHANGED <<active, everActive, depth, args, outarg, outbuf, leaves,
                   leafIdx, leafRes, err, log, kernels>>

\* matmul on two vectors of one length, or on two square matrices
CallMatmulValues ==
    /\ pc = "idle"
    /\ \/ \E n \in 1..MaxLen :
          \E x1 \in Vectors(n, {0, 2, 3}), x2 \in Vectors(n, {1, 4, 8}) :
          \E ta \in BOOLEAN, tb \in BOOLEAN :
             CallValues("matmul", x1, x2, <<ta, tb>>,
                        matmul_values(x1, x2, ta, tb))
       \/ \E d1 \in [1..4 -> {1, 2}], d2 \in [1..4 -> {0, 3}] :
          \E ta \in BOOLEAN, tb \in BOOLEAN :
             LET x1 == Tensor(<<2, 2>>, d1)
                 x2 == Tensor(<<2, 2>>, d2)
             IN  CallValues("matmul", x1, x2, <<ta, tb>>,
                            matmul_values(x1, x2, ta, tb))

\* torch.diagonal(x, offset=, dim1=, dim2=): the two dimensions are removed
\* and the diagonal becomes the last dimension
torch_diagonal_values(x, offset, dim1, dim2) ==
    LET lo    == Max(0 - offset, 0)
        hi    == Max(offset, 0)
        n     == Max(0, Min(x.shape[dim1 + 1] - lo, x.shape[dim2 + 1] - hi))
        rest  == SelectSeq([d \in 1..Rank(x) |-> d],
                           LAMBDA d : d # dim1 + 1 /\ d # dim2 + 1)
        shape == [r \in 1..Len(rest) |-> x.shape[rest[r]]] \o <<n>>
        full(idx) ==
            [d \in 1..Rank(x) |->
               IF d = dim1 + 1 THEN Last(idx) + lo
               ELSE IF d = dim2 + 1 THEN Last(idx) + hi
               ELSE idx[d - (IF dim1 + 1 < d THEN 1 ELSE 0)
                          - (IF dim2 + 1 < d THEN 1 ELSE 0)]]
    IN  MkT(shape, LAMBDA idx : At(x, full(idx)))

\* torch.sum(x): the sum of all elements, a tensor without dimensions
torch_sum(x) == Tensor(<<>>, <<SumSeq(x.data)>>)

\* torch.sum(x, dim=-1): the sums along the last dimension
torch_sum_last(x) ==
    MkT(Front(x.shape),
        LAMBDA idx : SumSeq([i \in 1..Last(x.shape) |->
                               At(x, Append(idx, i - 1))]))

\* torch trace(x, offset=, axis1=0, axis2=1)
trace_values(x, offset) == torch_sum(torch_diagonal_values(x, offset, 0, 1))

\* the input of the docstring examples of trace, and matrices and stacks
\* filled with multiples
TraceInputs ==
    {Tensor(<<2, 3>>, <<2, 0, 3, 3, 5, 6>>),
     Tensor(<<2, 2, 2>>, <<1, 2, 3, 4, 5, 6, 7, 8>>)}
       \cup {Tensor(sh, [k \in 1..Size(sh) |-> c * k + d]) :
               sh \in {<<2, 2>>, <<2, 3>>, <<3, 2>>, <<2, 2, 2>>, <<2, 3, 2>>},
               c \in 1..2, d \in 0..2}

CallTraceValues ==
    /\ pc = "idle"
    /\ \E x \in TraceInputs, offset \in {-1, 0, 1} :
          CallValues("trace", x, None, offset, trace_values(x, offset))

Abs(v) == IF v < 0 THEN 0 - v ELSE v

\* the square root of a square
Sqrt(n) == CHOOSE r \in 0..n : r * r = n

\* the norm of a sequence of numbers: the sum of the magnitudes (ord = 1)
\* or the square root of the sum of the squares (ord = 2)
NormOf(seq, ord) ==
    IF ord = 1 THEN SumSeq([i \in 1..Len(seq) |-> Abs(seq[i])])
    ELSE Sqrt(SumSeq([i \in 1..Len(seq) |-> seq[i] * seq[i]]))

\* an axis argument: None, or the number of an axis
Axis(k) == [kind |-> "axis", k |-> k]

\* torch.linalg.vector_norm(x, ord, axis, keepdims=False): the norm of all
\* elements, a tensor without dimensions, when axis is None; else the norms
\* along the axis, which is removed
native_vector_norm(x, ord, axis) ==
    IF axis = None
    THEN Tensor(<<>>, <<NormOf(x.data, ord)>>)
    ELSE LET d == axis.k + 1
             shape == SubSeq(x.shape, 1, d - 1)
                         \o SubSeq(x.shape, d + 1, Rank(x))
             full(idx, i) == SubSeq(idx, 1, d - 1) \o <<i>>
                                \o SubSeq(idx, d, Len(idx))
         IN  MkT(shape,
                 LAMBDA idx : NormOf([i \in 1..x.shape[d] |->
                                        At(x, full(idx, i - 1))], ord))

\* torch.unsqueeze(x, 0) of a tensor without dimensions
unsqueeze0(x) == Tensor(<<1>> \o x.shape, x.data)

\* torch vector_norm(x, axis, keepdims=False, ord)
vector_norm_values(x, axis, ord) ==
    LET py_normalized_vector == native_vector_norm(x, ord, axis)
    IN  IF py_normalized_vector.shape = <<>>
        THEN unsqueeze0(py_normalized_vector)
        ELSE py_normalized_vector

\* vectors and matrices whose norms are whole numbers
NormInputs ==
    UNION {{Tensor(<<2>>, <<3 * k, 4 * k>>),
            Tensor(<<3>>, <<0, 5 * k, 12 * k>>),
            Tensor(<<2, 2>>, <<3 * k, 0, 4 * k, 0>>),
            Tensor(<<2, 2>>, <<0, 5 * k, 0, 12 * k>>)} : k \in 1..MaxLen}

CallVectorNormValues ==
    /\ pc = "idle"
    /\ \E x \in NormInputs, ord \in {1, 2} :
       \E axis \in {None} \cup {Axis(k) : k \in 0..(Rank(x) - 1)} :
          CallValues("vector_norm", x, None, [axis |-> axis, ord |-> ord],
                     vector_norm_values(x, axis, ord))

\* torch.transpose(x, dim0, dim1) of a matrix; negative numbers count the
\* dimensions from the last
torch_transpose(x, dim0, dim1) ==
    LET a == IF dim0 < 0 THEN dim0 + Rank(x) ELSE dim0
        b == IF dim1 < 0 THEN dim1 + Rank(x) ELSE dim1
    IN  IF a = b THEN x ELSE torch_t(x)

\* the cross product of two vectors of three elements
Cross3(u, v) ==
    <<u[2] * v[3] - u[3] * v[2],
      u[3] * v[1] - u[1] * v[3],
      u[1] * v[2] - u[2] * v[1]>>

\* torch.linalg.cross(x1, x2, dim=): the cross products of the vectors
\* lying along the dimension of two matrices
native_cross(x1, x2, dim) ==
    LET d == IF dim < 0 THEN dim + Rank(x1) ELSE dim
        vec(x, idx) == [i \in 1..3 |->
                          At(x, IF d = 0 THEN <<i - 1, idx[2]>>
                                ELSE <<idx[1], i - 1>>)]
    IN  MkT(x1.shape,
            LAMBDA idx : Cross3(vec(x1, idx), vec(x2, idx))[idx[d + 1] + 1])

\* torch cross(x1, x2, axisa=-1, axisb=-1, axisc=-1, axis=)
cross_values(x1, x2, axis) ==
    LET ax == IF axis = None THEN -1 ELSE axis.k
    IN  IF ax # 0
        THEN native_cross(x1, x2, ax)
        ELSE torch_transpose(
                 native_cross(torch_transpose(x1, -1, 1),
                              torch_transpose(x2, -1, 1), -1),
                 -1, 1)

\* cross on two 3x3 matrices
CallCrossValues ==
    /\ pc = "idle"
    /\ \E x1 \in {Tensor(<<3, 3>>, <<1, 0, 0, 0, 1, 0, 0, 0, 1>>),
                  Tensor(<<3, 3>>, <<1, 2, 3, 4, 5, 6, 7, 8, 9>>)} :
       \E x2 \in {Tensor(<<3, 3>>, [k \in 1..9 |-> c * k - d]) :
                     c \in 1..MaxLen, d \in 0..MaxLen} :
       \E axis \in {None, Axis(-1), Axis(0), Axis(1)} :
          CallValues("cross", x1, x2, axis, cross_values(x1, x2, axis))

\* a tensor of which only the shape is followed
ShapeOnly(shape) == [kind |-> "tensor", shape |-> shape]

\* torch.broadcast_shapes of two compatible shapes, aligned from the last
\* dimension
RECURSIVE broadcast_shapes(_, _)
broadcast_shapes(a, b) ==
    IF a = <<>> THEN b
    ELSE IF b = <<>> THEN a
    ELSE Append(broadcast_shapes(Front(a), Front(b)),
                IF Last(a) = 1 THEN Last(b) ELSE Last(a))

\* shape[:-2]
Batch(shape) == SubSeq(shape, 1, Len(shape) - 2)

\* shape[-2:]
Matrix(shape) == SubSeq(shape, Len(shape) - 1, Len(shape))

\* the shape of torch.linalg.solve(A, B): B is a batch of vectors when it has
\* one dimension or the shape of A without its last dimension, else a batch
\* of matrices broadcast against A
native_solve(a, b) ==
    IF Len(b) = 1 \/ (Len(b) = Len(a) - 1 /\ b = Front(a))
    THEN b
    ELSE broadcast_shapes(Batch(a), Batch(b)) \o Matrix(b)

\* torch solve(x1, x2): lines 310-330 on the shapes of the operands
solve_values(x1, x2) ==
    LET expanded_last == Rank(x2) <= 1 /\ Last(x2.shape) = Last(x1.shape)
        b        == IF expanded_last THEN Append(x2.shape, 1) ELSE x2.shape
        is_empty == Size(x1.shape) = 0 \/ Size(b) = 0
        b0       == [i \in 1..(Rank(x1) - 2) |-> 1] \o b
        output_shape ==
            broadcast_shapes(Batch(x1.shape), Batch(b0)) \o Matrix(b0)
        r        == IF is_empty THEN output_shape
                    ELSE native_solve(x1.shape, b)
    IN  ShapeOnly(IF expanded_last /\ Last(r) = 1 THEN Front(r) ELSE r)

\* the accepted shapes of solve: x1 of shape (M, M) or (B, M, M), x2 of shape
\* (M,), (M, K) or (B, M, K), dimensions of no element included
CallSolveValues ==
    /\ pc = "idle"
    /\ \E M \in 0..MaxLen - 1, K \in 0..MaxLen - 1, B \in 0..MaxLen - 1 :
       \E s1 \in {<<M, M>>, <<B, M, M>>} :
       \E s2 \in {<<M>>, <<M, K>>, <<B, M, K>>} :
          CallValues("solve", ShapeOnly(s1), ShapeOnly(s2), 0,
                     solve_values(ShapeOnly(s1), ShapeOnly(s2)))

\* the determinant of a 2x2 matrix
Det2(x) == x.data[1] * x.data[4] - x.data[2] * x.data[3]

\* what a function on tensors with contents hands back: the value returned,
\* the out buffer as the call leaves it, the exception raised ("" when none)
\* and the native kernel it invoked ("" when none)
ResK(r, out, raised, kernel) ==
    [ret |-> r, out |-> out, raised |-> raised, kernel |-> kernel]

\* torch.inverse(x, out=) of a 2x2 matrix of determinant 1, -1 or 0: a
\* matrix of determinant 0 is refused; the inverse is written into out,
\* which is then what is returned
native_inverse(x, out) ==
    LET det == Det2(x)
        r   == Tensor(<<2, 2>>, <<x.data[4] * det, (0 - x.data[2]) * det,
                                  (0 - x.data[3]) * det, x.data[1] * det>>)
    IN  IF det = 0
        THEN ResK(None, out, "LinAlgError", "inverse")
        ELSE ResK(r, IF out = None THEN None ELSE r, "", "inverse")

\* torch inv(x, adjoint=, out=)
inv_values(x, adjoint, out) ==
    IF det_is_zero
    THEN IF out # None THEN ResK(x, x, "", "") ELSE ResK(None, out, "", "")
    ELSE IF ~adjoint
         THEN native_inverse(x, out)
         ELSE native_inverse(torch_t(x), out)

\* the 2x2 matrices of determinant 1, -1 or 0 with elements 0 to MaxLen - 1
InvInputs ==
    {x \in {Tensor(<<2, 2>>, d) : d \in [1..4 -> 0..MaxLen - 1]} :
        Det2(x) \in {-1, 0, 1}}

CallInvValues ==
    /\ pc = "idle"
    /\ \E x \in InvInputs, adjoint \in BOOLEAN :
       \E out \in {None, Tensor(<<2, 2>>, <<0, 0, 0, 0>>)} :
          CallValues("inv", x, None, [adjoint |-> adjoint, out |-> out],
                     inv_values(x, adjoint, out))

\* torch.diag(v, diagonal=k) of a vector of n elements: the square matrix of
\* n + |k| rows with v on its k-th diagonal and 0 elsewhere
native_diag(v, k) ==
    LET m == v.shape[1] + Abs(k)
    IN  MkT(<<m, m>>,
            LAMBDA idx : IF idx[2] - idx[1] = k
                         THEN v.data[Min(idx[1], idx[2]) + 1] ELSE 0)

\* ret += d on matrices: d is broadcast to the shape of ret, which an
\* in-place operation cannot change; RuntimeError when it does not fit
iadd(r, d) ==
    IF \A i \in 1..2 : d.shape[i] \in {1, r.shape[i]}
    THEN ResK(MkT(r.shape,
                  LAMBDA idx :
                     At(r, idx)
                        + At(d, [i \in 1..2 |->
                                   IF d.shape[i] = 1 THEN 0 ELSE idx[i]])),
              None, "", "diag")
    ELSE ResK(None, None, "RuntimeError", "diag")

\* an optional number: None, or a number that was given
Given(k) == [kind |-> "int", k |-> k]

\* torch diag(x, offset=, padding_value=, num_rows=, num_cols=)
diag_values(x, offset, padding_value, num_rows, num_cols) ==
    LET rows == IF num_rows = None THEN x.shape[1] ELSE num_rows.k
        cols == IF num_cols = None THEN x.shape[1] ELSE num_cols.k
        ones == MkT(<<rows, cols>>, LAMBDA idx : 1 * padding_value)
        xp   == Tensor(x.shape, [i \in 1..x.shape[1] |->
                                    x.data[i] - padding_value])
    IN  iadd(ones, native_diag(xp, offset))

\* diag on vectors of 1 to MaxLen elements, with the default num_rows and
\* num_cols or one row or column more
CallDiagValues ==
    /\ pc = "idle"
    /\ \E n \in 1..MaxLen :
       \E x \in Vectors(n, {1, 2}) :
       \E offset \in {-1, 0, 1}, padding_value \in {0, 7} :
       \E num_rows \in {None, Given(n + 1)}, num_cols \in {None, Given(n + 1)} :
          CallValues("diag", x, None,
                     [offset |-> offset, padding_value |-> padding_value,
                      num_rows |-> num_rows, num_cols |-> num_cols],
                     diag_values(x, offset, padding_value, num_rows,
                                 num_cols))

NextValues ==
    \/ CallMatmulValues
    \/ CallTraceValues
    \/ CallVectorNormValues
    \/ CallCrossValues
    \/ CallSolveValues
    \/ CallInvValues
    \/ CallDiagValues
    \/ Return

SpecValues == Init /\ [][NextValues]_vars

-----------------------------------------------------------------------------
(* The torch frontend: ivy/functional/frontends/torch/miscellaneous_ops.py *)

\* the array a unified function called by the frontend returns
New(dtype, shape, val) == Arr("ivy", "torch", "new", dtype, shape, val)

\* renorm(input, p, dim, maxnorm, out=): the slices along dim scaled down to
\* maxnorm, in the dtype and shape of input
renorm(input, p, dim, maxnorm, out) ==
    LET r == New(input.dtype, input.shape, T1("renorm", input))
    IN  Res(r, IF out # None THEN inplace_update(out, r) ELSE out, "")

\* logcumsumexp(input, dim, out=): input itself when it has no dimensions
logcumsumexp(input, dim, out) ==
    LET r == IF input.shape = "()" THEN input
             ELSE New(input.dtype, input.shape, T1("log_cumsum_exp", input))
    IN  Res(r, IF out # None THEN inplace_update(out, r) ELSE out, "")

\* a call of a frontend function: the caller has the result, the exception
\* and the out buffer as the function leaves it
CallFrontend(op, x1, p, out, r) ==
    /\ pc = "idle"
    /\ call' = [op |-> op, x1 |-> x1, x2 |-> None, p |-> p, out |-> out]
    /\ ret' = r.ret
    /\ outbuf' = r.out
    /\ err' = IF r.raised = "" THEN None ELSE RawErr(r.raised, op)
    /\ pc' = "done"
    /\ UNCHANGED <<active, everActive, depth, args, outarg, leaves, leafIdx,
                   leafRes, log, kernels>>

\* renorm and logcumsumexp on arrays of every dtype, with and without an out
\* buffer of the dtype and shape of the result
CallWithOut ==
    /\ pc = "idle"
    /\ \E d \in Dtypes, sh \in {"()", "in"}, dim \in {0, 1} :
       \E out \in {None, Arr("ivy", "torch", "out", d, sh, "zeros")} :
          LET input == Arr("ivy", "torch", "x1", d, sh, "A")
          IN  \/ /\ sh # "()"
                 /\ \E ord \in {1, 2} :
                       CallFrontend("renorm", input,
                                    [p |-> ord, dim |-> dim], out,
                                    renorm(input, ord, dim, 1, out))
              \/ CallFrontend("logcumsumexp", input, [dim |-> dim], out,
                              logcumsumexp(input, dim, out))

\* the number of a dimension counted from the first one
Norm(d, n) == IF d < 0 THEN d + n ELSE d

\* ivy.flip(x, axis=axes): the elements in reverse order along the axes
ivy_flip(x, axes) ==
    MkT(x.shape,
        LAMBDA idx :
           At(x, [d \in 1..Rank(x) |->
                    IF \E i \in 1..Len(axes) : Norm(axes[i], Rank(x)) = d - 1
                    THEN x.shape[d] - 1 - idx[d] ELSE idx[d]]))

\* ivy.permute_dims(x, axes=axes): dimension d of the result is dimension
\* axes[d] of x
permute_dims(x, axes) ==
    LET n == Rank(x)
        a == [d \in 1..n |-> Norm(axes[d], n) + 1]
    IN  MkT([d \in 1..n |-> x.shape[a[d]]],
            LAMBDA idx : At(x, [e \in 1..n |->
                                  idx[CHOOSE d \in 1..n : a[d] = e]]))

\* the checks of rot90 without the one of the distance between the dims
rot90_checks_NoWrap(input, dims) ==
    LET total_dims == Rank(input)
    IN  IF total_dims < 2 THEN "expected total dims >= 2"
        ELSE IF Len(dims) # 2 THEN "expected total rotation dims == 2"
        ELSE IF dims[1] = dims[2]
        THEN "expected rotation dims to be different"
        ELSE IF \E i \in 1..2 : dims[i] >= total_dims \/ dims[i] < 0 - total_dims
        THEN "Rotation dim out of range"
        ELSE ""

\* the checks of rot90 in their order (lines 153-212): the message of the
\* first one that fails, "" when all pass
rot90_checks(input, dims) ==
    LET total_dims     == Rank(input)
        total_rot_dims == Len(dims)
    IN  IF total_dims < 2 THEN "expected total dims >= 2"
        ELSE IF total_rot_dims # 2 THEN "expected total rotation dims == 2"
        ELSE IF dims[1] = dims[2]
        THEN "expected rotation dims to be different"
        ELSE IF Abs(dims[1] - dims[2]) = total_dims
        THEN "expected rotation dims to be different"
        ELSE IF ~(dims[1] < total_dims) \/ ~(dims[1] >= 0 - total_dims)
        THEN "Rotation dim0 out of range"
        ELSE IF ~(dims[2] < total_dims) \/ ~(dims[2] >= 0 - total_dims)
        THEN "Rotation dim1 out of range"
        ELSE ""

\* three quarter turns made as one
rot90_turns_Once(input, k, dims) ==
    LET lo == Norm(Min(dims[1], dims[2]), Rank(input)) + 1
        hi == Norm(Max(dims[1], dims[2]), Rank(input)) + 1
        new_axes == [d \in 1..Rank(input) |->
                       IF d = lo THEN hi - 1 ELSE IF d = hi THEN lo - 1
                       ELSE d - 1]
    IN  CASE k % 4 \in {1, 3}
               -> permute_dims(ivy_flip(input, <<dims[2]>>), new_axes)
          [] k % 4 = 2 -> ivy_flip(input, dims)
          [] OTHER -> input

\* the turns of rot90 (lines 214-226); permute_dims is given out=flipped, so
\* that flipped receives the permuted array and is what is returned
rot90_turns(input, k, dims) ==
    LET total_dims == Rank(input)
        k4    == (4 + (k % 4)) % 4
        lo    == Min(dims[1], dims[2])
        hi    == Max(dims[1], dims[2])
        range == [d \in 1..total_dims |-> d - 1]
        first == [range EXCEPT ![Norm(lo, total_dims) + 1] = hi]
        new_axes == [first EXCEPT ![Norm(hi, total_dims) + 1] = lo]
    IN  CASE k4 = 1 -> permute_dims(ivy_flip(input, <<dims[2]>>), new_axes)
          [] k4 = 2 -> ivy_flip(input, dims)
          [] k4 = 3 -> permute_dims(ivy_flip(input, <<dims[1]>>), new_axes)
          [] OTHER -> input

\* rot90(input, k, dims)
rot90(input, k, dims) ==
    IF rot90_checks(input, dims) # ""
    THEN Res(None, None, rot90_checks(input, dims))
    ELSE Res(rot90_turns(input, k, dims), None, "")

\* the largest number of quarter turns a caller asks for
MaxTurns == 5

\* tensors of one, two and three dimensions whose elements all differ
Rot90Inputs ==
    {Tensor(sh, [i \in 1..Size(sh) |-> i]) :
        sh \in {<<MaxLen>>, <<2, 2>>, <<2, MaxLen>>, <<2, 1, MaxLen>>}}

\* rot90 with every k, and dims of one to three numbers, in range or not
CallRot90 ==
    /\ pc = "idle"
    /\ \E input \in Rot90Inputs, k \in (0 - MaxTurns)..MaxTurns :
       \E dims \in [1..2 -> (0 - Rank(input) - 1)..Rank(input)]
                      \cup {<<0>>, <<0, 1, 0>>, <<0, 1, 2>>} :
          CallFrontend("rot90", input, [k |-> k, dims |-> dims], None,
                       rot90(input, k, dims))

\* a Python tuple of values
PyTuple(items) == [kind |-> "tuple", items |-> items]

\* ivy.meshgrid(*tensors, indexing="ij"): one grid for each vector, of the
\* shape (len(t1), ..., len(tn)), the i-th varying along dimension i
meshgrid(tensors) ==
    LET shape == [i \in 1..Len(tensors) |-> tensors[i].shape[1]]
    IN  [i \in 1..Len(tensors) |->
           MkT(shape, LAMBDA idx : tensors[i].data[idx[i] + 1])]

\* ivy.stack(arrays, axis=-1): the arrays side by side along a new last
\* dimension
stack(arrays) ==
    MkT(Append(arrays[1].shape, Len(arrays)),
        LAMBDA idx : At(arrays[Last(idx) + 1], Front(idx)))

\* ivy.reshape(x, shape=(-1, n)): the elements in their order, in rows of n
reshape(x, n) == Tensor(<<Size(x.shape) \div n, n>>, x.data)

\* cartesian_prod(*tensors)
cartesian_prod(tensors) ==
    IF Len(tensors) = 1
    THEN Res(PyTuple(tensors), None, "")
    ELSE Res(reshape(stack(meshgrid(tensors)), Len(tensors)), None, "")

\* cartesian_prod of one to MaxLen vectors of one or two elements
CallCartesianProd ==
    /\ pc = "idle"
    /\ \E n \in 1..MaxLen :
       \E tensors \in [1..n -> Vectors(1, {1, 2}) \cup Vectors(2, {1, 2})] :
          CallFrontend("cartesian_prod", PyTuple(tensors), n, None,
                       cartesian_prod(tensors))

NextFrontend ==
    \/ CallWithOut
    \/ CallRot90
    \/ CallCartesianProd
    \/ Return

SpecFrontend == Init /\ [][NextFrontend]_vars

-----------------------------------------------------------------------------
(* Properties *)

Done == pc = "done"

PlainCall == IsArr(call.x1) /\ (call.x2 = None \/ IsArr(call.x2))

\* what the torch function returns for the arguments of the call when it is
\* called without out
NoOutReturn ==
    TorchFn(call.op, to_native(call.x1), to_native(call.x2), call.p, None).ret

HasEvent(ev) == \E i \in 1..Len(log) : log[i].ev = ev

\* the operations C1 lists
C1Ops ==
    {"cholesky", "cross", "det", "diag", "diagonal", "inner", "inv", "matmul",
     "matrix_norm", "matrix_power", "matrix_rank", "matrix_transpose",
     "outer", "pinv", "solve", "svdvals", "tensordot", "trace", "vecdot",
     "vector_norm", "vander"}

\* C1: on the torch backend, a call that is given an out buffer of the
\* result's shape returns that very buffer, and the buffer then holds the
\* value the same call returns without out.
C1_OutHoldsResult ==
    (Done /\ err = None /\ active = "torch" /\ call.op \in C1Ops
        /\ call.out # None /\ call.out.shape = NoOutShape(call.op, call.p))
    => /\ ret.kind = "ivy" /\ ret.id = "out"
       /\ ret.val = outbuf.val
       /\ outbuf.val = NoOutReturn.val

\* C2: a torch function whose support_native_out is True takes an out
\* parameter and, when it is given out, has written its result into out when
\* it returns.
C2_NativeOutIsWritten ==
    (pc = "exit" /\ depth = NDecorators /\ active = "torch"
        /\ support_native_out(call.op) = "True")
    => /\ TorchHasOutParam(call.op)
       /\ outarg # None => outbuf.val = ret.val

\* C3: a call given an out buffer whose shape is not the result's shape
\* returns no result, and fails with OutputShapeMismatch once it gets as far
\* as handling out.
C3_OutShapeMismatchFails ==
    (Done /\ call.out # None /\ call.out.shape # NoOutShape(call.op, call.p))
    => /\ err # None
       /\ HasEvent("out") => err.kind = "OutputShapeMismatch"

\* C4: whatever stage of the call fails, the caller gets a normalized
\* exception, never the raw exception of the backend.
C4_FailuresAreNormalized == (Done /\ err # None) => ~err.raw

StageRank(ev) ==
    CASE ev = "to_native" -> 1 [] ev = "kernel" -> 2 [] ev = "out" -> 3
      [] ev = "to_ivy" -> 4

ArgLeafConverted(name, v) ==
    v # None =>
       \A i \in 1..Len(LeafPaths(v)) :
          \E j \in 1..Len(log) :
             log[j] = [ev |-> "to_native", arg |-> name,
                       path |-> LeafPaths(v)[i]]

\* C5: the stages of a call run in the order native conversion, kernel, out
\* handling, conversion of the result, each at most once per array leaf; a
\* call that returns has run them all, except that qr, slogdet and svd have
\* no out stage.
C5_StagesInOrder ==
    pc # "idle" =>
       /\ \A i, j \in 1..Len(log) :
             i < j => /\ StageRank(log[i].ev) <= StageRank(log[j].ev)
                      /\ log[i] # log[j]
       /\ call.op \in NoOutOps => ~HasEvent("out")
       /\ HasEvent("kernel") =>
             ArgLeafConverted("x1", call.x1) /\ ArgLeafConverted("x2", call.x2)
       /\ (Done /\ err = None) =>
             /\ HasEvent("kernel")
             /\ call.op \notin NoOutOps => HasEvent("out")
             /\ \A i \in 1..Len(RetPaths(ret)) :
                   \E j \in 1..Len(log) :
                      log[j] = [ev |-> "to_ivy", arg |-> "ret",
                                path |-> RetPaths(ret)[i]]

C5_Witness ==
    /\ Done /\ err = None
    /\ call.op = "cholesky" /\ call.out # None
    /\ Len(log) = 4

\* C6: on the torch backend float16 and bfloat16 are refused with
\* UnsupportedDtype, before any kernel runs, by cholesky, det and inv (recorded
\* by the decorator) at versions up to 1.11.0 and by trace and vander
\* (recorded by the attribute); every other dtype and version passes these
\* guards; and no kernel of any torch function ever runs on a dtype recorded
\* for it.
C6_UnsupportedDtypeGuard ==
    (pc # "idle" /\ active = "torch" /\ call.fault = "none" /\ PlainCall
        /\ call.x1.kind = "native" /\ call.x1.be = "torch")
    => /\ \A i \in 1..Len(kernels) :
             /\ call.x1.dtype
                  \notin function_unsupported_dtypes(call.op, call.version)
             /\ call.x2 # None =>
                  call.x2.dtype
                     \notin function_unsupported_dtypes(call.op, call.version)
       /\ call.op \in {"cholesky", "det", "inv", "trace", "vander"} =>
             IF /\ call.x1.dtype \in {"float16", "bfloat16"}
                /\ \/ VersionLE(call.version, <<1, 11, 0>>)
                   \/ call.op \in {"trace", "vander"}
             THEN kernels = <<>> /\ (Done => err.kind = "UnsupportedDtype")
             ELSE Done => err.kind # "UnsupportedDtype"

C6_Witness ==
    /\ Done /\ active = "torch"
    /\ call.op = "trace" /\ call.x1.kind = "native"
    /\ call.x1.dtype = "bfloat16"
    /\ call.version = <<1, 12, 1>>
    /\ err.kind = "UnsupportedDtype"

\* C7: with a backend selected, a two-operand operation given native tensors
\* of two different backends fails with AmbiguousBackend and runs no kernel.
C7_MixedBackendsAreAmbiguous ==
    (Done /\ active # NoBackend /\ call.op \in TwoOperandOps
        /\ call.x1.kind = "native" /\ call.x2.kind = "native"
        /\ call.x1.be # call.x2.be)
    => err.kind = "AmbiguousBackend" /\ kernels = <<>>

\* C8: while no backend has been selected no kernel runs, and every call on
\* arrays, vander's included, fails with NoBackendSelected.
C8_NoBackendNoKernel ==
    active = NoBackend =>
       /\ kernels = <<>>
       /\ (Done /\ ~HasOther(call.x1) /\ ~HasOther(call.x2)) =>
             err.kind = "NoBackendSelected"

C8_Witness ==
    /\ Done /\ active = NoBackend
    /\ call.op = "vander" /\ call.x1.kind = "native"
    /\ err.kind = "NoBackendSelected"

IsStale(v) == v.kind = "ivy" /\ v.be # active

\* C9: an array created under a backend that is no longer the active one is
\* never handed to a kernel: the call that is given it fails.
C9_StaleArrayNeverReachesKernel ==
    (pc # "idle" /\ active # NoBackend
        /\ (IsStale(call.x1) \/ IsStale(call.x2)))
    => kernels = <<>> /\ (Done => err # None)

\* the unified operation on plain arrays: conversion to native, the torch
\* function, conversion of the result
LeafResult(op, l1, l2, p) ==
    to_ivy(TorchFn(op, to_native(l1), to_native(l2), p, None).ret)

\* C10: on two Containers with the same keys an operation returns a Container
\* with the keys of the first, in its order, at every depth, whose leaf at
\* each key path is the operation on the two leaves at that path.
C10_ContainersLeafwise ==
    (Done /\ active = "torch" /\ IsContainer(call.x1) /\ IsContainer(call.x2)
        /\ {LeafPaths(call.x1)[i] : i \in 1..Len(LeafPaths(call.x1))}
             = {LeafPaths(call.x2)[i] : i \in 1..Len(LeafPaths(call.x2))})
    => /\ err = None
       /\ IsContainer(ret)
       /\ LeafPaths(ret) = LeafPaths(call.x1)
       /\ \A i \in 1..Len(LeafPaths(call.x1)) :
             LET path == LeafPaths(call.x1)[i]
             IN  GetPath(ret, path)
                    = LeafResult(call.op, GetPath(call.x1, path),
                                 GetPath(call.x2, path), call.p)

C10_Witness ==
    /\ Done /\ err = None /\ active = "torch"
    /\ call.op = "matmul"
    /\ IsContainer(call.x1) /\ IsContainer(call.x2)
    /\ Len(LeafPaths(call.x1)) = 3
    /\ LeafPaths(call.x2) # LeafPaths(call.x1)
    /\ IsContainer(ret)

\* the value an argument contributes at a leaf path: a Container's leaf at the
\* path, a plain array itself
ArgAt(v, path) == IF IsContainer(v) THEN GetPath(v, path) ELSE v

TheContainer == IF IsContainer(call.x1) THEN call.x1 ELSE call.x2

\* C11: a two-operand operation given a plain array and a Container, in either
\* position, returns a Container with the Container's keys whose leaf at each
\* key path is the operation on the plain array and the Container's leaf there.
C11_PlainArgumentBroadcast ==
    (Done /\ active = "torch" /\ call.op \in TwoOperandOps
        /\ IsContainer(call.x1) # IsContainer(call.x2)
        /\ (IsArr(call.x1) \/ IsArr(call.x2)))
    => /\ err = None
       /\ IsContainer(ret)
       /\ LeafPaths(ret) = LeafPaths(TheContainer)
       /\ \A i \in 1..Len(LeafPaths(TheContainer)) :
             LET path == LeafPaths(TheContainer)[i]
             IN  GetPath(ret, path)
                    = LeafResult(call.op, ArgAt(call.x1, path),
                                 ArgAt(call.x2, path), call.p)

C11_Witness ==
    /\ Done /\ err = None /\ active = "torch"
    /\ call.op = "cross"
    /\ IsArr(call.x1) /\ IsContainer(call.x2)
    /\ Len(LeafPaths(call.x2)) = 3
    /\ IsContainer(ret)

PathInBoth(path) ==
    \A v \in {call.x1, call.x2} : IsContainer(v) =>
        HasPath(v, path) /\ ~IsContainer(GetPath(v, path))

\* some leaf path of the first Container is no leaf path of the second
KeyMissing ==
    /\ IsContainer(call.x1) /\ IsContainer(call.x2)
    /\ \E i \in 1..Len(LeafPaths(call.x1)) : ~PathInBoth(LeafPaths(call.x1)[i])

C13_LayerNormLeafwise ==
    (Done /\ call.op = "layer_norm")
    => /\ IsContainer(ret)
       /\ LeafPaths(ret) = LeafPaths(call.x1)
       /\ \A i \in 1..Len(LeafPaths(call.x1)) :
             LET path == LeafPaths(call.x1)[i]
             IN  GetPath(ret, path)
                    = layer_norm_leaf(GetPath(call.x1, path),
                                      ArgAt(call.normalized_idxs, path),
                                      ArgAt(call.weight, path),
                                      ArgAt(call.bias, path),
                                      call.epsilon,
                                      ArgAt(call.new_std, path),
                                      ArgAt(call.out, path))

C13_Witness ==
    /\ Done /\ call.op = "layer_norm"
    /\ Len(LeafPaths(call.x1)) = 3
    /\ IsContainer(call.normalized_idxs) /\ IsContainer(call.new_std)
    /\ IsContainer(call.bias) /\ call.weight = Plain("0.3")
    /\ IsContainer(ret)

C15_ResultHasPromotedDtype ==
    (Done /\ err = None /\ active = "torch" /\ call.op \in TwoOperandOps
        /\ PlainCall /\ call.out = None)
    => ret.dtype = promote_types(call.x1.dtype, call.x2.dtype)

\* the field names of the structured result of an operation
ResultFields(op, p) ==
    CASE op = "qr" -> <<"Q", "R">>
      [] op = "slogdet" -> <<"sign", "logabsdet">>
      [] op = "svd" -> IF p = 0 THEN <<"U", "S", "Vh">> ELSE <<"S">>

\* C16: qr, slogdet and svd return to the caller a tuple with the fields of
\* the backend result (Q, R; sign, logabsdet; U, S, Vh, or S alone without
\* compute_uv), in its order and under its names, each element being the
\* backend's element converted to a unified array.
C16_TupleResultPreserved ==
    (Done /\ err = None /\ active = "torch" /\ PlainCall
        /\ call.op \in NoOutOps)
    => /\ ret.kind = "tuple"
       /\ ret.name = call.op
       /\ ret.fields = ResultFields(call.op, call.p)
       /\ ret.fields = NoOutReturn.fields
       /\ Len(ret.items) = Len(ret.fields)
       /\ \A i \in 1..Len(ret.items) :
             /\ ret.items[i].kind = "ivy"
             /\ ret.items[i] = to_ivy(NoOutReturn.items[i])

C16_Witness ==
    /\ Done /\ err = None /\ active = "torch"
    /\ call.op = "svd" /\ call.p = 1
    /\ ret.kind = "tuple" /\ ret.fields = <<"S">>
    /\ ret.items[1].kind = "ivy"

\* C17: matmul of two vectors of one length, without transposition, returns
\* a tensor without dimensions holding the sum of the products of their
\* elements: 32 for [2, 0, 3] and [4, 1, 8].
C17_MatmulOfVectors ==
    (Done /\ call.op = "matmul" /\ Rank(call.x1) = 1 /\ Rank(call.x2) = 1
        /\ call.p = <<FALSE, FALSE>>)
    => /\ ret.shape = <<>>
       /\ Len(ret.data) = 1
       /\ ret.data[1] = SumSeq([i \in 1..call.x1.shape[1] |->
                                  At(call.x1, <<i - 1>>) * At(call.x2, <<i - 1>>)])
       /\ (call.x1.data = <<2, 0, 3>> /\ call.x2.data = <<4, 1, 8>>)
             => ret.data[1] = 32

C17_Witness ==
    /\ Done /\ call.op = "matmul" /\ call.p = <<FALSE, FALSE>>
    /\ call.x1 = Tensor(<<3>>, <<2, 0, 3>>)
    /\ call.x2 = Tensor(<<3>>, <<4, 1, 8>>)
    /\ ret = Tensor(<<>>, <<32>>)

\* C18: trace(x, offset=k) returns the sums of the k-th diagonals taken over
\* the two traced axes, an array of the shape of x without those axes: one
\* scalar for a matrix (7 for [[2,0,3],[3,5,6]]), [3, 4] for the stack
\* [[[1,2],[3,4]],[[5,6],[7,8]]] with offset 1.
C18_TraceOfStack ==
    (Done /\ call.op = "trace")
    => /\ ret = torch_sum_last(torch_diagonal_values(call.x1, call.p, 0, 1))
       /\ Rank(ret) = Rank(call.x1) - 2
       /\ (call.x1 = Tensor(<<2, 3>>, <<2, 0, 3, 3, 5, 6>>) /\ call.p = 0)
             => ret = Tensor(<<>>, <<7>>)
       /\ (call.x1 = Tensor(<<2, 2, 2>>, <<1, 2, 3, 4, 5, 6, 7, 8>>)
              /\ call.p = 1)
             => ret = Tensor(<<2>>, <<3, 4>>)

\* C19: vector_norm without keepdims returns the norms with the reduced axes
\* removed: with axis None a tensor without dimensions holding the norm of
\* all elements (5 for [3, 4] with ord 2), with one axis a tensor of one
\* dimension less than x.
C19_VectorNormRank ==
    (Done /\ call.op = "vector_norm")
    => /\ ret.data = native_vector_norm(call.x1, call.p.ord, call.p.axis).data
       /\ call.p.axis = None => ret.shape = <<>>
       /\ call.p.axis # None => Rank(ret) = Rank(call.x1) - 1
       /\ (call.x1 = Tensor(<<2>>, <<3, 4>>) /\ call.p.ord = 2
              /\ call.p.axis = None)
             => ret = Tensor(<<>>, <<5>>)

\* C20: cross(x1, x2, axis=k) is the cross product of the vectors lying along
\* axis k, for k = 0 as for every other axis; the last axis is taken only
\* when axis is not given.
C20_CrossAlongAxis ==
    (Done /\ call.op = "cross")
    => ret = native_cross(call.x1, call.x2,
                          IF call.p = None THEN -1 ELSE call.p.k)

\* C21: solve(x1, x2) returns an array of the shape of x2: (M,) for x2 of
\* shape (M,) and x1 of shape (M, M), (..., M, K) for x2 of shape (..., M, K)
\* whose batch dimensions are those the operands broadcast to, also when an
\* operand has no elements and x1 has batch dimensions.
C21_SolveKeepsShapeOfX2 ==
    (Done /\ call.op = "solve")
    => /\ (Rank(call.x2) = 1 /\ Rank(call.x1) = 2)
             => ret.shape = call.x2.shape
       /\ (Rank(call.x2) >= 2
              /\ broadcast_shapes(Batch(call.x1.shape), Batch(call.x2.shape))
                    = Batch(call.x2.shape))
             => ret.shape = call.x2.shape

\* C22: cholesky(x, upper) returns the lower factor of x exactly when upper
\* is False, and otherwise the transpose of the lower factor of the transpose
\* of x; on both paths an out buffer that was passed is what the call
\* returns, and it holds that factor.
C22_CholeskyFactor ==
    (Done /\ err = None /\ active = "torch" /\ call.op = "cholesky"
        /\ PlainCall)
    => /\ call.p = 0 => ret.val = T1("cholesky", call.x1)
       /\ call.p = 1
             => ret.val = T1("t", [val |-> T1("cholesky",
                                              [val |-> T1("t", call.x1)])])
       /\ ret.kind = "ivy"
       /\ call.out # None
             => /\ ret.id = "out"
                /\ outbuf.val = ret.val
                /\ outbuf.val = NoOutReturn.val

C22_Witness ==
    /\ Done /\ err = None /\ active = "torch"
    /\ call.op = "cholesky" /\ call.p = 1 /\ call.out # None
    /\ ret.id = "out"
    /\ outbuf.val = "t(cholesky(t(A)))"

\* C23: matrix_norm on the torch backend, for every ord of its domain (an
\* int, a float, inf, -inf, "fro", "nuc"), reaches the native kernel with
\* that norm order and fails with no exception of its own.
C23_MatrixNormAcceptsOrd ==
    (Done /\ active = "torch" /\ call.op = "matrix_norm" /\ PlainCall
        /\ call.fault = "none" /\ call.x1.be = "torch"
        /\ call.x1.dtype \notin {"float16", "bfloat16"})
    => /\ err = None
       /\ ret.val = T1("matrix_norm_" \o Ord(call.p).v, call.x1)

\* C24: torch inv on a matrix of determinant zero takes the singular branch:
\* it returns x unchanged, copied into out when out is passed, and does not
\* invoke the inverse kernel; on every other matrix it returns the inverse of
\* x, or of the transpose of x when adjoint is True; it never returns None.
C24_InvSingularBranch ==
    (Done /\ call.op = "inv")
    => LET x == call.x1
           a == IF call.p.adjoint THEN torch_t(x) ELSE x
       IN  /\ Det2(x) = 0
                 => /\ ret.raised = "" /\ ret.kernel = ""
                    /\ ret.ret = x
                    /\ call.p.out # None => ret.out = x
           /\ Det2(x) # 0
                 => /\ ret.raised = "" /\ ret.kernel = "inverse"
                    /\ ret.ret # None
                    /\ native_matmul(a, ret.ret)
                          = Tensor(<<2, 2>>, <<1, 0, 0, 1>>)
                    /\ call.p.out # None => ret.out = ret.ret
           /\ ret.ret # None

\* C25: the torch-frontend renorm and logcumsumexp, given an out buffer,
\* write the result into the buffer and return that very buffer.
C25_FrontendReturnsOut ==
    (Done /\ call.op \in {"renorm", "logcumsumexp"} /\ call.out # None)
    => /\ outbuf.id = "out"
       /\ outbuf.val = (IF call.op = "renorm"
                        THEN renorm(call.x1, call.p.p, call.p.dim, 1, None)
                        ELSE logcumsumexp(call.x1, call.p.dim, None)).ret.val
       /\ ret = outbuf

\* C26: torch diag(x, offset=k, padding_value=p) on a vector x returns,
\* without failing, the num_rows x num_cols matrix (both len(x) when not
\* given) that holds the elements of x along its k-th diagonal and p at every
\* other place, for every k.
C26_DiagAtEveryOffset ==
    (Done /\ call.op = "diag")
    => LET n    == call.x1.shape[1]
           rows == IF call.p.num_rows = None THEN n ELSE call.p.num_rows.k
           cols == IF call.p.num_cols = None THEN n ELSE call.p.num_cols.k
       IN  /\ ret.raised = ""
           /\ ret.ret.shape = <<rows, cols>>
           /\ \A i \in 0..rows - 1, j \in 0..cols - 1 :
                 At(ret.ret, <<i, j>>)
                    = IF j - i = call.p.offset /\ Min(i, j) < n
                      THEN call.x1.data[Min(i, j) + 1]
                      ELSE call.p.padding_value

\* C27: torch vecdot casts its operands to float32 exactly when the promoted
\* dtype of x1 and x2 is not float64: operands whose promoted dtype is
\* float64 reach the contraction as they are; the result has the promoted
\* dtype in every case.
C27_VecdotKeepsFloat64 ==
    (Done /\ call.op = "vecdot")
    => LET dtype == promote_types(call.x1.dtype, call.x2.dtype)
       IN  /\ dtype # "float64"
                 => \A i \in 1..2 : ret.operands[i].dtype = "float32"
           /\ dtype = "float64"
                 => ret.operands = <<call.x1, call.x2>>
           /\ ret.ret.dtype = dtype

\* whether dims names two different dimensions of an array of n dimensions
ValidDims(dims, n) ==
    /\ n >= 2
    /\ Len(dims) = 2
    /\ \A i \in 1..2 : dims[i] >= 0 - n /\ dims[i] < n
    /\ Norm(dims[1], n) # Norm(dims[2], n)

\* C28: the torch-frontend rot90 fails, with no result computed, exactly when
\* the input has fewer than 2 dimensions, dims has not 2 elements, a dim is
\* outside [-total_dims, total_dims), or both dims name the same dimension
\* once negative numbers are resolved; every other input is accepted.
C28_Rot90Rejects ==
    (Done /\ call.op = "rot90")
    => /\ err # None <=> ~ValidDims(call.p.dims, Rank(call.x1))
       /\ err # None => ret = None
       /\ err = None => ret # None

C28_Witness ==
    /\ Done /\ call.op = "rot90"
    /\ Rank(call.x1) = 2 /\ call.p.dims = <<0, -2>>
    /\ err # None

\* n successive quarter turns of x
RECURSIVE QuarterTurns(_, _, _)
QuarterTurns(x, n, dims) ==
    IF n = 0 THEN x ELSE rot90(QuarterTurns(x, n - 1, dims), 1, dims).ret

\* C29: for every k, negative ones included, and every valid dims, negative
\* numbers included, rot90(x, k, dims) equals k mod 4 successive
\* rot90(., 1, dims) of x: k = 0 gives an array equal to x, and so do four
\* quarter turns.
C29_Rot90IsRepeatedQuarterTurn ==
    (Done /\ call.op = "rot90" /\ err = None)
    => /\ ret = QuarterTurns(call.x1, call.p.k % 4, call.p.dims)
       /\ call.p.k = 0 => ret = call.x1
       /\ QuarterTurns(call.x1, 4, call.p.dims) = call.x1

C29_Witness ==
    /\ Done /\ call.op = "rot90" /\ err = None
    /\ call.p.k = -1 /\ call.p.dims = <<-1, 0>>
    /\ call.x1 = Tensor(<<2, 3>>, <<1, 2, 3, 4, 5, 6>>)
    /\ ret = Tensor(<<3, 2>>, <<3, 6, 2, 5, 1, 4>>)

\* C30: the torch-frontend cartesian_prod of n >= 1 vectors returns an array:
\* the vector itself for n = 1, and for n >= 2 the matrix of n columns with
\* one row for each element of the cartesian product, the first vector
\* varying slowest.
C30_CartesianProdReturnsArray ==
    (Done /\ call.op = "cartesian_prod")
    => LET tensors == call.x1.items
           n       == Len(tensors)
           lens    == [i \in 1..n |-> tensors[i].shape[1]]
       IN  /\ ret.kind = "tensor"
           /\ n = 1 => ret = tensors[1]
           /\ n >= 2
                 => /\ ret.shape = <<Size(lens), n>>
                    /\ \A r \in 0..Size(lens) - 1 : \A c \in 1..n :
                          At(ret, <<r, c - 1>>)
                             = tensors[c].data[IdxOf(lens, r)[c] + 1]

====
